---- MODULE Spec2Model ----
(***************************************************************************)
(* State-machine model of the duplicate-content scanner                     *)
(* (src/duplicate_finder.py): file discovery, line/block duplicate          *)
(* indexing, report writing, console summary and the process exit.          *)
(*                                                                          *)
(* Text is modelled as sequences of code points (integers).  File names     *)
(* are such sequences, paths are sequences of names, file contents are      *)
(* sequences of bytes.                                                      *)
(***************************************************************************)
EXTENDS Integers, Sequences, FiniteSets, TLC

VARIABLES
    cfg,        \* parsed command line (args of main)
    cwd,        \* working directory of the process (absolute path)
    dirs,       \* file system: absolute directory path -> listing
    data,       \* file system: absolute file path -> bytes
    ioerr,      \* environment: which file operations fail
    now,        \* wall clock, an index into Timestamps
    pc,         \* position of the process in main / of the function under test
    run,        \* number of the current run of main (1, 2, ...)
    pending,    \* os.walk: stack of directories still to visit
    files,      \* scan_files: candidate list
    file_index, \* index_duplicates: number of files processed so far
    line_to_occurrences,  \* dict, in insertion order: <<[k, v], ...>>
    block_to_occurrences, \* dict, in insertion order: <<[k, v], ...>>
    total_files,
    total_lines,
    out,        \* write_report: the open output file (handle, buffered bytes)
    stdout,     \* what the process printed, in order
    exit_code,  \* -1 while running, else the exit status of the process
    before,     \* content of the output path when the current run started
    reports     \* the reports completed by earlier runs, in order

vars == <<cfg, cwd, dirs, data, ioerr, now, pc, run, pending, files, file_index,
          line_to_occurrences, block_to_occurrences, total_files, total_lines,
          out, stdout, exit_code, before, reports>>

(***************************************************************************)
(* Text: code points of Python str / bytes literals.                        *)
(***************************************************************************)
\* the printable ASCII characters in code-point order: 32..95 and 97..126
\* (the backquote, 96, cannot be written in a string of this language)
ASCII_LO == " !\"#$%&'()*+,-./0123456789:;<=>?@ABCDEFGHIJKLMNOPQRSTUVWXYZ[\\]^_"
ASCII_HI == "abcdefghijklmnopqrstuvwxyz{|}~"

Ord == [c \in {SubSeq(ASCII_LO, i, i) : i \in 1..Len(ASCII_LO)}
              \cup {SubSeq(ASCII_HI, i, i) : i \in 1..Len(ASCII_HI)}
              \cup {"\n", "\t", "\r"} |->
          IF c = "\n" THEN 10
          ELSE IF c = "\t" THEN 9
          ELSE IF c = "\r" THEN 13   \* CR
          ELSE IF \E i \in 1..Len(ASCII_LO) : SubSeq(ASCII_LO, i, i) = c
               THEN 31 + (CHOOSE i \in 1..Len(ASCII_LO) : SubSeq(ASCII_LO, i, i) = c)
               ELSE 96 + (CHOOSE i \in 1..Len(ASCII_HI) : SubSeq(ASCII_HI, i, i) = c)]

\* the code points of a string literal
B(s) == [i \in 1..Len(s) |-> Ord[SubSeq(s, i, i)]]

NUL == 0
LF == 10

Min(S) == CHOOSE x \in S : \A y \in S : x <= y
Max(S) == CHOOSE x \in S : \A y \in S : x >= y

RECURSIVE Flatten(_)
Flatten(ss) == IF ss = <<>> THEN <<>> ELSE Head(ss) \o Flatten(Tail(ss))

RECURSIVE Join(_, _)
Join(sep, ss) ==
    IF ss = <<>> THEN <<>>
    ELSE IF Len(ss) = 1 THEN ss[1]
    ELSE ss[1] \o sep \o Join(sep, Tail(ss))

RECURSIVE SumLen(_)
SumLen(ss) == IF ss = <<>> THEN 0 ELSE Len(Head(ss)) + SumLen(Tail(ss))

Range(s) == {s[i] : i \in 1..Len(s)}

\* str(n) / f"{n}" of an int
RECURSIVE Digits(_)
Digits(n) == IF n < 10 THEN <<48 + n>> ELSE Digits(n \div 10) \o <<48 + (n % 10)>>
Str(n) == IF n < 0 THEN <<45>> \o Digits(0 - n) ELSE Digits(n)

\* Python's < on str: lexicographic by code point
RECURSIVE LexLess(_, _)
LexLess(a, b) ==
    IF b = <<>> THEN FALSE
    ELSE IF a = <<>> THEN TRUE
    ELSE IF Head(a) # Head(b) THEN Head(a) < Head(b)
    ELSE LexLess(Tail(a), Tail(b))

\* str.lower() on ASCII
Lower(s) == [i \in 1..Len(s) |-> IF s[i] >= 65 /\ s[i] <= 90 THEN s[i] + 32 ELSE s[i]]

\* the characters str.strip() removes (ASCII range of str.isspace)
Whitespace == {9, 10, 11, 12, 13, 28, 29, 30, 31, 32}

(***************************************************************************)
(* Heuristics and defaults (module constants of duplicate_finder.py).       *)
(***************************************************************************)
DEFAULT_EXCLUDE_DIRS ==
    {B(".git"), B("node_modules"), B("dist"), B("build"), B("out"), B(".next"),
     B(".nuxt"), B(".cache"), B(".venv"), B("venv"), B("target"), B("bin"),
     B("obj"), B("coverage"), B("__pycache__"), B("ios"), B("android"),
     B("Pods"), B("vendor"), B(".gradle"), B(".idea"), B(".vscode")}

DEFAULT_EXCLUDE_FILES ==
    {B("package-lock.json"), B("yarn.lock"), B("pnpm-lock.yaml"), B("Cargo.lock"),
     B("go.sum"), B("Gemfile.lock"), B("poetry.lock"), B("composer.lock"),
     B("Podfile.lock"), B("npm-shrinkwrap.json"), B("duplicate_report.txt")}

BINARY_EXTENSIONS ==
    {B(".png"), B(".jpg"), B(".jpeg"), B(".gif"), B(".bmp"), B(".svg"), B(".ico"),
     B(".webp"), B(".avif"), B(".mp3"), B(".mp4"), B(".mov"), B(".avi"), B(".mkv"),
     B(".wav"), B(".flac"), B(".pdf"), B(".doc"), B(".docx"), B(".xls"), B(".xlsx"),
     B(".ppt"), B(".pptx"), B(".zip"), B(".gz"), B(".tar"), B(".tgz"), B(".bz2"),
     B(".7z"), B(".rar"), B(".woff"), B(".woff2"), B(".ttf"), B(".eot"), B(".otf"),
     B(".jar"), B(".class"), B(".wasm"), B(".so"), B(".dylib"), B(".o"), B(".a"),
     B(".lib"), B(".dll")}

PRINTABLE_WHITELIST == (32..126) \cup {9, 10, 13}

\* default of is_probably_binary's sample_size parameter
SAMPLE_SIZE == 4096

\* the heuristic without its NUL test: the ratio alone decides
SampleIsBinary_ratio_only(sample) ==
    IF Len(sample) = 0 THEN FALSE
    ELSE 10 * Cardinality({i \in 1..Len(sample) : sample[i] \notin PRINTABLE_WHITELIST})
           > 3 * Len(sample)

\* the ratio compared with >= for >: a sample at exactly 30% counts as binary
SampleIsBinary_at_least(sample) ==
    IF \E i \in 1..Len(sample) : sample[i] = NUL THEN TRUE
    ELSE IF Len(sample) = 0 THEN FALSE
    ELSE 10 * Cardinality({i \in 1..Len(sample) : sample[i] \notin PRINTABLE_WHITELIST})
           >= 3 * Len(sample)

\* is_probably_binary after a successful read: sample = f.read(sample_size)
SampleIsBinary(sample) ==
    IF \E i \in 1..Len(sample) : sample[i] = NUL THEN TRUE
    ELSE IF Len(sample) = 0 THEN FALSE
    ELSE LET non_printable == Cardinality({i \in 1..Len(sample) : sample[i] \notin PRINTABLE_WHITELIST})
         IN  \* (non_printable / len(sample)) > 0.30, the float division being exact
             \* enough at these sizes that the comparison is that of the rationals
             10 * non_printable > 3 * Len(sample)

\* the except branch returning False: a file that cannot be sampled counts as text
is_probably_binary_error_is_text(bytes, openFails, sample_size) ==
    IF openFails THEN FALSE
    ELSE SampleIsBinary(SubSeq(bytes, 1, Min({sample_size, Len(bytes)})))

\* is_probably_binary(file_path, sample_size): openFails is the outcome of open/read
is_probably_binary(bytes, openFails, sample_size) ==
    IF openFails THEN TRUE
    ELSE SampleIsBinary(SubSeq(bytes, 1, Min({sample_size, Len(bytes)})))

\* line.rstrip(): only the end of the line is stripped
normalize_line_rstrip(line) ==
    LET n == Len(line)
        nw == {i \in 1..n : line[i] \notin Whitespace}
    IN  IF nw = {} THEN <<>> ELSE SubSeq(line, 1, Max(nw))

\* line.strip()
normalize_line(line) ==
    LET n == Len(line)
        nw == {i \in 1..n : line[i] \notin Whitespace}
    IN  IF nw = {} THEN <<>>
        ELSE LET first == CHOOSE i \in 1..n : line[i] \notin Whitespace /\ \A j \in 1..(i-1) : line[j] \in Whitespace
                 last == CHOOSE i \in 1..n : line[i] \notin Whitespace /\ \A j \in (i+1)..n : line[j] \in Whitespace
             IN  SubSeq(line, first, last)

\* the set literal of should_skip_line (its repeated entries collapse)
SKIP_TOKENS ==
    {B("{"), B("}"), B("];"), B(");"), B("],"), B(");"), B("],"), B(");"), B(")"), B("];"), B(";")}

\* the skip rule without the structural tokens
should_skip_line_no_tokens(line_norm, min_len) ==
    IF line_norm = <<>> THEN TRUE
    ELSE IF Len(line_norm) < min_len THEN TRUE
    ELSE FALSE

\* the length test with <= for <: a line of exactly min_len is skipped
should_skip_line_at_most(line_norm, min_len) ==
    IF line_norm = <<>> THEN TRUE
    ELSE IF Len(line_norm) <= min_len THEN TRUE
    ELSE IF line_norm \in SKIP_TOKENS THEN TRUE
    ELSE FALSE

should_skip_line(line_norm, min_len) ==
    IF line_norm = <<>> THEN TRUE
    ELSE IF Len(line_norm) < min_len THEN TRUE
    ELSE IF line_norm \in SKIP_TOKENS THEN TRUE
    ELSE FALSE

(***************************************************************************)
(* Paths.  A path argument is the list of its "/"-separated components, an  *)
(* absolute one starting with the empty component; a path of the file       *)
(* system is the list of names from "/" down.                               *)
(***************************************************************************)
DOT == B(".")
DOTDOT == B("..")

IsAbs(p) == p # <<>> /\ p[1] = <<>>

\* os.path.normpath of an absolute path: "." and empty components dropped, ".." resolved
RECURSIVE NormInto(_, _)
NormInto(acc, p) ==
    IF p = <<>> THEN acc
    ELSE IF Head(p) = DOT \/ Head(p) = <<>> THEN NormInto(acc, Tail(p))
    ELSE IF Head(p) = DOTDOT
         THEN NormInto(IF acc = <<>> THEN acc ELSE SubSeq(acc, 1, Len(acc) - 1), Tail(p))
    ELSE NormInto(Append(acc, Head(p)), Tail(p))

\* os.path.abspath(p) in working directory wd
abspath(p, wd) == NormInto(<<>>, IF IsAbs(p) THEN p ELSE wd \o p)

\* the string of an absolute path
PathStr(ap) == B("/") \o Join(B("/"), ap)

\* the file name alone, without the directories below the start
relpath_basename(path, start) == path[Len(path)]

\* os.path.relpath(path, start), both absolute and normalized
relpath(path, start) ==
    LET m == Min({Len(path), Len(start)})
        c == Max({i \in 0..m : \A j \in 1..i : path[j] = start[j]})
        ups == [i \in 1..(Len(start) - c) |-> DOTDOT]
        rel == ups \o SubSeq(path, c + 1, Len(path))
    IN  IF rel = <<>> THEN DOT ELSE Join(B("/"), rel)

\* os.path.splitext(filename)[1]: from the last dot, unless that dot only
\* follows leading dots
splitext_ext(filename) ==
    LET dots == {i \in 1..Len(filename) : filename[i] = 46}
    IN  IF dots = {} THEN <<>>
        ELSE LET d == Max(dots)
             IN  IF \A j \in 1..(d - 1) : filename[j] = 46 THEN <<>>
                 ELSE SubSeq(filename, d, Len(filename))

(***************************************************************************)
(* Reading a candidate: open(file_path, 'r', encoding='utf-8',              *)
(* errors='ignore') and f.readlines().                                      *)
(***************************************************************************)
\* bytes that can occur in no UTF-8 sequence; errors='ignore' drops them.  The
\* other bytes of the model's files are ASCII, which decode to themselves.
INVALID_UTF8 == {192, 193} \cup (245..255)

Decode(bytes) == SelectSeq(bytes, LAMBDA b : b \notin INVALID_UTF8)

\* text mode, newline=None: "\r\n" and "\r" are read as "\n"
UniversalNewlines(t) ==
    LET marked == [i \in 1..Len(t) |->
                     IF t[i] = 13
                     THEN (IF i < Len(t) /\ t[i + 1] = LF THEN -1 ELSE LF)
                     ELSE t[i]]
    IN  SelectSeq(marked, LAMBDA c : c # -1)

\* the lines of a text, each with its terminator
SplitLines(t) ==
    LET ends == {i \in 1..Len(t) : t[i] = LF}
        n == Cardinality(ends) + (IF Len(t) > 0 /\ t[Len(t)] # LF THEN 1 ELSE 0)
        EndOf(k) == IF k <= Cardinality(ends)
                    THEN CHOOSE i \in ends : Cardinality({j \in ends : j <= i}) = k
                    ELSE Len(t)
        StartOf(k) == IF k = 1 THEN 1 ELSE EndOf(k - 1) + 1
    IN  [k \in 1..n |-> SubSeq(t, StartOf(k), EndOf(k))]

\* reading only the terminated lines: an unterminated last line is lost
readlines_terminated_only(bytes) ==
    LET ls == SplitLines(UniversalNewlines(Decode(bytes)))
    IN  SelectSeq(ls, LAMBDA l : l[Len(l)] = LF)

readlines(bytes) == SplitLines(UniversalNewlines(Decode(bytes)))

(***************************************************************************)
(* dict / defaultdict(list), in insertion order: a sequence of items        *)
(* [k |-> key, v |-> list].                                                 *)
(***************************************************************************)
DictKeys(d) == {d[i].k : i \in 1..Len(d)}

\* the occurrence put at the front of the list instead of its end
DictAppend_prepend(d, key, occ) ==
    IF key \in DictKeys(d)
    THEN [i \in 1..Len(d) |-> IF d[i].k = key THEN [d[i] EXCEPT !.v = <<occ>> \o @] ELSE d[i]]
    ELSE Append(d, [k |-> key, v |-> <<occ>>])

\* d[key].append(occ) on a defaultdict(list)
DictAppend(d, key, occ) ==
    IF key \in DictKeys(d)
    THEN [i \in 1..Len(d) |-> IF d[i].k = key THEN [d[i] EXCEPT !.v = Append(@, occ)] ELSE d[i]]
    ELSE Append(d, [k |-> key, v |-> <<occ>>])

(***************************************************************************)
(* index_duplicates: the body of the loop over one file.                    *)
(***************************************************************************)
\* the loop with enumerate's default start: line numbers from 0
RECURSIVE IndexLines_zero_based(_, _, _, _, _)
IndexLines_zero_based(d, rel_path, normalized_lines, min_line_length, i) ==
    IF i > Len(normalized_lines) THEN d
    ELSE IF should_skip_line(normalized_lines[i], min_line_length)
         THEN IndexLines_zero_based(d, rel_path, normalized_lines, min_line_length, i + 1)
    ELSE IndexLines_zero_based(DictAppend(d, normalized_lines[i], <<rel_path, i - 1>>),
                               rel_path, normalized_lines, min_line_length, i + 1)

\* the loop over the lines left at the first line that is skipped (break for continue)
RECURSIVE IndexLines_stop_at_skip(_, _, _, _, _)
IndexLines_stop_at_skip(d, rel_path, normalized_lines, min_line_length, i) ==
    IF i > Len(normalized_lines) THEN d
    ELSE IF should_skip_line(normalized_lines[i], min_line_length) THEN d
    ELSE IndexLines_stop_at_skip(DictAppend(d, normalized_lines[i], <<rel_path, i>>),
                                 rel_path, normalized_lines, min_line_length, i + 1)

\* for i, line_norm in enumerate(normalized_lines, start=1): ...
RECURSIVE IndexLines(_, _, _, _, _)
IndexLines(d, rel_path, normalized_lines, min_line_length, i) ==
    IF i > Len(normalized_lines) THEN d
    ELSE IF should_skip_line(normalized_lines[i], min_line_length)
         THEN IndexLines(d, rel_path, normalized_lines, min_line_length, i + 1)
    ELSE IndexLines(DictAppend(d, normalized_lines[i], <<rel_path, i>>),
                    rel_path, normalized_lines, min_line_length, i + 1)

\* the sum compared with <= for <: a window at exactly the minimum is skipped
SkipWindow_at_most(window, min_block_total_length) ==
    IF \E j \in 1..Len(window) : window[j] = <<>> THEN TRUE
    ELSE IF SumLen(window) <= min_block_total_length THEN TRUE
    ELSE FALSE

\* one window of the block loop: TRUE when it is skipped
SkipWindow(window, min_block_total_length) ==
    IF \E j \in 1..Len(window) : window[j] = <<>> THEN TRUE
    ELSE IF SumLen(window) < min_block_total_length THEN TRUE
    ELSE FALSE

\* for start in range(0, len(normalized_lines) - block_size + 1): ...
RECURSIVE IndexWindows(_, _, _, _, _, _)
IndexWindows(d, rel_path, normalized_lines, block_size, min_block_total_length, start) ==
    IF start >= Len(normalized_lines) - block_size + 1 THEN d
    ELSE LET window == SubSeq(normalized_lines, start + 1, start + block_size)
         IN  IF SkipWindow(window, min_block_total_length)
             THEN IndexWindows(d, rel_path, normalized_lines, block_size,
                               min_block_total_length, start + 1)
             ELSE IndexWindows(DictAppend(d, Join(<<LF>>, window), <<rel_path, start + 1>>),
                               rel_path, normalized_lines, block_size,
                               min_block_total_length, start + 1)

\* the guard with > for >=: a file of exactly block_size lines has no window
IndexBlocks_strict(d, rel_path, normalized_lines, block_size, min_block_total_length) ==
    IF block_size > 1 /\ Len(normalized_lines) > block_size
    THEN IndexWindows(d, rel_path, normalized_lines, block_size, min_block_total_length, 0)
    ELSE d

\* the window loop entered without the guard
IndexBlocks_no_guard(d, rel_path, normalized_lines, block_size, min_block_total_length) ==
    IndexWindows(d, rel_path, normalized_lines, block_size, min_block_total_length, 0)

\* if block_size > 1 and len(normalized_lines) >= block_size: ...
IndexBlocks(d, rel_path, normalized_lines, block_size, min_block_total_length) ==
    IF block_size > 1 /\ Len(normalized_lines) >= block_size
    THEN IndexWindows(d, rel_path, normalized_lines, block_size, min_block_total_length, 0)
    ELSE d

\* the filter with >= 1: every recorded key is kept
FilterDuplicates_keep_all(d) == SelectSeq(d, LAMBDA item : Len(item.v) >= 1)

\* a group retained only when its occurrences lie in two files or more
FilterDuplicates_distinct_files(d) ==
    SelectSeq(d, LAMBDA item : Cardinality({item.v[i][1] : i \in 1..Len(item.v)}) >= 2)

\* {k: v for k, v in d.items() if len(v) >= 2}
FilterDuplicates(d) == SelectSeq(d, LAMBDA item : Len(item.v) >= 2)

(***************************************************************************)
(* write_report: the text of the report.                                    *)
(***************************************************************************)
\* the sort key without its second component: -len(kv[1]) alone
KeyLess_count_only(a, b) == Len(a.v) > Len(b.v)

\* the sort key of write_report and top_items: (-len(kv[1]), kv[0]); TRUE when
\* the key of item a is less than the key of item b
KeyLess(a, b) ==
    \/ Len(a.v) > Len(b.v)
    \/ Len(a.v) = Len(b.v) /\ LexLess(a.k, b.k)

\* sorted(d.items(), key=...): a stable sort, here by insertion from the left
RECURSIVE InsertSorted(_, _)
InsertSorted(sorted_items, item) ==
    IF sorted_items = <<>> THEN <<item>>
    ELSE IF KeyLess(item, Head(sorted_items)) THEN <<item>> \o sorted_items
    ELSE <<Head(sorted_items)>> \o InsertSorted(Tail(sorted_items), item)

RECURSIVE SortedFrom(_, _)
SortedFrom(acc, d) ==
    IF d = <<>> THEN acc ELSE SortedFrom(InsertSorted(acc, Head(d)), Tail(d))

\* the items listed as the dict stores them, unsorted
SortedItems_as_stored(d) == d

SortedItems(d) == SortedFrom(<<>>, d)

\* sum(len(v) for v in d.values())
RECURSIVE OccTotal(_)
OccTotal(d) == IF d = <<>> THEN 0 ELSE Len(Head(d).v) + OccTotal(Tail(d))

\* time.strftime('%Y-%m-%d %H:%M:%S') at clock value t (seconds, t < 60)
TimeStr(t) == B("2024-01-01 00:00:") \o (IF t < 10 THEN B("0") ELSE <<>>) \o Str(t)

\* for rel_path, n in occs: out.write(f"- {rel_path}:{n}\n")
RECURSIVE LocationLines(_)
LocationLines(occs) ==
    IF occs = <<>> THEN <<>>
    ELSE B("- ") \o Head(occs)[1] \o B(":") \o Str(Head(occs)[2]) \o B("\n")
         \o LocationLines(Tail(occs))

\* the entries of one detailed section, for the groups in the given order
RECURSIVE GroupEntries(_, _)
GroupEntries(items, label) ==
    IF items = <<>> THEN <<>>
    ELSE B("Occurrences: ") \o Str(Len(Head(items).v)) \o B("\n")
         \o label
         \o Head(items).k \o B("\n")
         \o B("Locations:\n")
         \o LocationLines(Head(items).v)
         \o B("\n---\n\n")
         \o GroupEntries(Tail(items), label)

\* lines 163-177: header and summary counts
ReportHead(ts, root_path, min_line_length, block_size, min_block_total_length, line_dups, block_dups, n_files, n_lines) ==
    B("Duplicate scan report\n")
    \o B("Generated: ") \o ts \o B("\n")
    \o B("Root: ") \o PathStr(root_path) \o B("\n")
    \o B("Config: min_line_length=") \o Str(min_line_length)
    \o B(", block_size=") \o Str(block_size)
    \o B(", min_block_total_length=") \o Str(min_block_total_length) \o B("\n")
    \o B("Scanned files: ") \o Str(n_files) \o B(", total lines: ") \o Str(n_lines) \o B("\n")
    \o B("\n")
    \o B("Duplicate 3-line blocks: ") \o Str(Len(block_dups)) \o B(" groups\n")
    \o B("Total block occurrences: ") \o Str(OccTotal(block_dups)) \o B("\n")
    \o B("Duplicate lines: ") \o Str(Len(line_dups)) \o B(" groups\n")
    \o B("Total line occurrences: ") \o Str(OccTotal(line_dups)) \o B("\n")
    \o B("\n\n")

\* lines 180-189: detailed section for block duplicates
ReportBlocks(block_dups) ==
    B("=== Duplicate 3-line blocks (details) ===\n\n")
    \o GroupEntries(SortedItems(block_dups), B("Block:\n"))

\* lines 192-200: detailed section for line duplicates
ReportLines(line_dups) ==
    B("=== Duplicate lines (details) ===\n\n")
    \o GroupEntries(SortedItems(line_dups), B("Line:\n"))

(***************************************************************************)
(* print_console_summary: what is printed, as one record per print call.    *)
(***************************************************************************)
TOP_N == 10
SHOWN_LOCATIONS == 10
PREVIEW_WIDTH == 120

\* the characters at which str.splitlines() breaks a line (ASCII range)
LineBoundaries == {10, 11, 12, 13, 28, 29, 30}

\* key.splitlines()[0] of a non-empty key
FirstLine(key) ==
    LET cut == {i \in 1..Len(key) : key[i] \in LineBoundaries}
    IN  IF cut = {} THEN key ELSE SubSeq(key, 1, Min(cut) - 1)

\* sorted(...)[:n]; a negative n counts from the end of the list
top_items(d, n) ==
    SubSeq(SortedItems(d), 1, IF n >= 0 THEN Min({n, Len(d)}) ELSE Max({0, Len(d) + n}))

\* the indicator printed from ten occurrences on (>= for >)
GroupPrints_more_from_ten(item, text) ==
    <<[t |-> "group", n |-> Len(item.v), text |-> SubSeq(text, 1, Min({PREVIEW_WIDTH, Len(text)}))]>>
    \o [i \in 1..Min({SHOWN_LOCATIONS, Len(item.v)}) |-> [t |-> "location", occ |-> item.v[i]]]
    \o (IF Len(item.v) >= SHOWN_LOCATIONS
        THEN <<[t |-> "more", n |-> Len(item.v) - SHOWN_LOCATIONS]>>
        ELSE <<>>)

\* the prints of one group: its head line, up to 10 locations, "... and N more"
GroupPrints(item, text) ==
    <<[t |-> "group", n |-> Len(item.v), text |-> SubSeq(text, 1, Min({PREVIEW_WIDTH, Len(text)}))]>>
    \o [i \in 1..Min({SHOWN_LOCATIONS, Len(item.v)}) |-> [t |-> "location", occ |-> item.v[i]]]
    \o (IF Len(item.v) > SHOWN_LOCATIONS
        THEN <<[t |-> "more", n |-> Len(item.v) - SHOWN_LOCATIONS]>>
        ELSE <<>>)

RECURSIVE BlockPrints(_)
BlockPrints(items) ==
    IF items = <<>> THEN <<>>
    ELSE GroupPrints(Head(items), FirstLine(Head(items).k)) \o BlockPrints(Tail(items))

RECURSIVE LinePrints(_)
LinePrints(items) ==
    IF items = <<>> THEN <<>>
    ELSE GroupPrints(Head(items), Head(items).k) \o LinePrints(Tail(items))

print_console_summary(line_dups, block_dups, n_files, n_lines, top_n) ==
    <<[t |-> "summary", files |-> n_files, lines |-> n_lines,
       block_groups |-> Len(block_dups), line_groups |-> Len(line_dups)]>>
    \o (IF block_dups # <<>>
        THEN <<[t |-> "top_blocks"]>> \o BlockPrints(top_items(block_dups, top_n))
        ELSE <<>>)
    \o (IF line_dups # <<>>
        THEN <<[t |-> "top_lines"]>> \o LinePrints(top_items(line_dups, top_n))
        ELSE <<>>)

(***************************************************************************)
(* The process: main, scan_files, index_duplicates, write_report.           *)
(***************************************************************************)
\* values given on the command line taking the place of the defaults
exclude_dirs_replace(args) ==
    IF args.exclude_dir # <<>> THEN Range(args.exclude_dir) ELSE DEFAULT_EXCLUDE_DIRS

\* main, lines 251-252: the lists handed to scan_files, which makes sets of them
exclude_dirs(args) == DEFAULT_EXCLUDE_DIRS \cup Range(args.exclude_dir)
exclude_files(args) == DEFAULT_EXCLUDE_FILES \cup Range(args.exclude_file)

root_abs == abspath(cfg.root, cwd)
out_abs == abspath(cfg.out, cwd)

NoHandle == [open |-> FALSE, path |-> <<>>, buf |-> <<>>, pos |-> 0, ts |-> <<>>]

\* the content of a path of the file system, as the process start records it
Snapshot(path) ==
    IF path \in DOMAIN data THEN [exists |-> TRUE, bytes |-> data[path]]
    ELSE [exists |-> FALSE, bytes |-> <<>>]

\* the size test with >= for >: a file of exactly the limit is skipped
is_candidate_size_strict(dirpath, filename, exclude_file_set, max_file_size_bytes) ==
    LET full_path == Append(dirpath, filename)
    IN  IF filename \in exclude_file_set THEN FALSE
        ELSE IF full_path \in ioerr.stat THEN FALSE
        ELSE IF Len(data[full_path]) >= max_file_size_bytes THEN FALSE
        ELSE IF Lower(splitext_ext(filename)) \in BINARY_EXTENSIONS THEN FALSE
        ELSE IF is_probably_binary(data[full_path], full_path \in ioerr.sample, SAMPLE_SIZE) THEN FALSE
        ELSE TRUE

\* scan_files, lines 76-90: TRUE when the file is appended to the candidates
is_candidate(dirpath, filename, exclude_file_set, max_file_size_bytes) ==
    LET full_path == Append(dirpath, filename)
    IN  IF filename \in exclude_file_set THEN FALSE
        ELSE IF full_path \in ioerr.stat THEN FALSE
        ELSE IF Len(data[full_path]) > max_file_size_bytes THEN FALSE
        ELSE IF Lower(splitext_ext(filename)) \in BINARY_EXTENSIONS THEN FALSE
        ELSE IF is_probably_binary(data[full_path], full_path \in ioerr.sample, SAMPLE_SIZE) THEN FALSE
        ELSE TRUE

\* the list of subdirectories left as os.walk produced it
prune_keep_all(dirnames, exclude_dir_set) == dirnames

\* scan_files, line 74: dirnames[:] = [d for d in dirnames if d not in exclude_dir_set]
prune(dirnames, exclude_dir_set) == SelectSeq(dirnames, LAMBDA d : d \notin exclude_dir_set)

\* main up to the first directory of os.walk (lines 249-256, 68-72); a root that
\* cannot be listed yields nothing
Main ==
    /\ pc = "start"
    /\ pc' = "scan"
    /\ files' = <<>>
    /\ pending' = IF root_abs \in DOMAIN dirs THEN <<root_abs>> ELSE <<>>
    /\ UNCHANGED <<cfg, cwd, dirs, data, ioerr, now, run, file_index,
                   line_to_occurrences, block_to_occurrences, total_files,
                   total_lines, out, stdout, exit_code, before, reports>>

\* one directory of the walk (lines 72-90): prune, filter its files, descend
ScanDir ==
    /\ pc = "scan"
    /\ pending # <<>>
    /\ LET dirpath == Head(pending)
           kept == prune(dirs[dirpath].dirnames, exclude_dirs(cfg))
           accepted == SelectSeq(dirs[dirpath].filenames,
                                 LAMBDA f : is_candidate(dirpath, f, exclude_files(cfg),
                                                         cfg.max_file_size_bytes))
       IN  /\ files' = files \o [i \in 1..Len(accepted) |-> Append(dirpath, accepted[i])]
           /\ pending' = [i \in 1..Len(kept) |-> Append(dirpath, kept[i])] \o Tail(pending)
    /\ UNCHANGED <<cfg, cwd, dirs, data, ioerr, now, pc, run, file_index,
                   line_to_occurrences, block_to_occurrences, total_files,
                   total_lines, out, stdout, exit_code, before, reports>>

\* scan_files returns; main prints the count and calls index_duplicates
\* (lines 91, 257, 259, 101-107)
ScanReturn ==
    /\ pc = "scan"
    /\ pending = <<>>
    /\ pc' = "index"
    /\ stdout' = Append(stdout, [t |-> "discovered", n |-> Len(files)])
    /\ file_index' = 0
    /\ line_to_occurrences' = <<>>
    /\ block_to_occurrences' = <<>>
    /\ total_files' = 0
    /\ total_lines' = 0
    /\ UNCHANGED <<cfg, cwd, dirs, data, ioerr, now, run, pending, files, out,
                   exit_code, before, reports>>

\* how often index_duplicates prints its progress line (line 140)
PROGRESS_EVERY == 200

\* the loop left at the first file that cannot be read (break for continue)
IndexFile_break_on_failure ==
    /\ pc = "index"
    /\ file_index < Len(files)
    /\ LET file_path == files[file_index + 1]
           rel_path == relpath(file_path, root_abs)
           readFails == file_path \in ioerr.read \/ file_path \notin DOMAIN data
       IN  /\ total_files' = total_files + 1
           /\ IF readFails
              THEN /\ file_index' = Len(files)
                   /\ UNCHANGED <<total_lines, line_to_occurrences, block_to_occurrences, stdout>>
              ELSE LET raw_lines == readlines(data[file_path])
                       normalized_lines == [i \in 1..Len(raw_lines) |-> normalize_line(raw_lines[i])]
                   IN  /\ file_index' = file_index + 1
                       /\ total_lines' = total_lines + Len(raw_lines)
                       /\ line_to_occurrences' =
                            IndexLines(line_to_occurrences, rel_path, normalized_lines,
                                       cfg.min_line_length, 1)
                       /\ block_to_occurrences' =
                            IndexBlocks(block_to_occurrences, rel_path, normalized_lines,
                                        cfg.block_size, cfg.min_block_total_length)
                       /\ stdout' = IF (file_index + 1) % PROGRESS_EVERY = 0
                                    THEN Append(stdout, [t |-> "progress", n |-> file_index + 1])
                                    ELSE stdout
    /\ UNCHANGED <<cfg, cwd, dirs, data, ioerr, now, pc, run, pending, files, out,
                   exit_code, before, reports>>

\* the file counted after its read instead of before: a failing read is not counted
IndexFile_counts_read_only ==
    /\ pc = "index"
    /\ file_index < Len(files)
    /\ LET file_path == files[file_index + 1]
           rel_path == relpath(file_path, root_abs)
           readFails == file_path \in ioerr.read \/ file_path \notin DOMAIN data
       IN  /\ file_index' = file_index + 1
           /\ IF readFails
              THEN UNCHANGED <<total_files, total_lines, line_to_occurrences,
                               block_to_occurrences, stdout>>
              ELSE LET raw_lines == readlines(data[file_path])
                       normalized_lines == [i \in 1..Len(raw_lines) |-> normalize_line(raw_lines[i])]
                   IN  /\ total_files' = total_files + 1
                       /\ total_lines' = total_lines + Len(raw_lines)
                       /\ line_to_occurrences' =
                            IndexLines(line_to_occurrences, rel_path, normalized_lines,
                                       cfg.min_line_length, 1)
                       /\ block_to_occurrences' =
                            IndexBlocks(block_to_occurrences, rel_path, normalized_lines,
                                        cfg.block_size, cfg.min_block_total_length)
                       /\ stdout' = IF (file_index + 1) % PROGRESS_EVERY = 0
                                    THEN Append(stdout, [t |-> "progress", n |-> file_index + 1])
                                    ELSE stdout
    /\ UNCHANGED <<cfg, cwd, dirs, data, ioerr, now, pc, run, pending, files, out,
                   exit_code, before, reports>>

\* one iteration of the loop of index_duplicates (lines 109-141)
IndexFile ==
    /\ pc = "index"
    /\ file_index < Len(files)
    /\ LET file_path == files[file_index + 1]
           rel_path == relpath(file_path, root_abs)
           readFails == file_path \in ioerr.read \/ file_path \notin DOMAIN data
       IN  /\ file_index' = file_index + 1
           /\ total_files' = total_files + 1
           /\ IF readFails
              THEN UNCHANGED <<total_lines, line_to_occurrences, block_to_occurrences, stdout>>
              ELSE LET raw_lines == readlines(data[file_path])
                       normalized_lines == [i \in 1..Len(raw_lines) |-> normalize_line(raw_lines[i])]
                   IN  /\ total_lines' = total_lines + Len(raw_lines)
                       /\ line_to_occurrences' =
                            IndexLines(line_to_occurrences, rel_path, normalized_lines,
                                       cfg.min_line_length, 1)
                       /\ block_to_occurrences' =
                            IndexBlocks(block_to_occurrences, rel_path, normalized_lines,
                                        cfg.block_size, cfg.min_block_total_length)
                       /\ stdout' = IF (file_index + 1) % PROGRESS_EVERY = 0
                                    THEN Append(stdout, [t |-> "progress", n |-> file_index + 1])
                                    ELSE stdout
    /\ UNCHANGED <<cfg, cwd, dirs, data, ioerr, now, pc, run, pending, files, out,
                   exit_code, before, reports>>

\* index_duplicates filters and returns (lines 143-147); main calls write_report,
\* which takes the time stamp (line 161)
IndexReturn ==
    /\ pc = "index"
    /\ file_index = Len(files)
    /\ line_to_occurrences' = FilterDuplicates(line_to_occurrences)
    /\ block_to_occurrences' = FilterDuplicates(block_to_occurrences)
    /\ out' = [NoHandle EXCEPT !.ts = TimeStr(now)]
    /\ pc' = "report"
    /\ UNCHANGED <<cfg, cwd, dirs, data, ioerr, now, run, pending, files, file_index,
                   total_files, total_lines, stdout, exit_code, before, reports>>

\* whether open(out_path, 'w') can succeed: the parent is a directory and the
\* path is not one
CanOpenForWrite(path) ==
    /\ path # <<>>
    /\ SubSeq(path, 1, Len(path) - 1) \in DOMAIN dirs
    /\ path \notin DOMAIN dirs

\* the exception caught and reported by main, which then returns normally
Raise_swallowed(what) ==
    /\ pc' = "done"
    /\ exit_code' = 0
    /\ stdout' = Append(stdout, [t |-> "traceback", what |-> what])
    /\ out' = [out EXCEPT !.open = FALSE, !.buf = <<>>]

\* a failure of write_report that is caught around the call: main goes on to
\* the console summary
Raise_then_summary(what) ==
    /\ pc' = "summary"
    /\ exit_code' = exit_code
    /\ stdout' = Append(stdout, [t |-> "traceback", what |-> what])
    /\ out' = [out EXCEPT !.open = FALSE, !.buf = <<>>]

\* an uncaught exception leaves main: traceback on stderr, exit status 1
Raise(what) ==
    /\ pc' = "done"
    /\ exit_code' = 1
    /\ stdout' = Append(stdout, [t |-> "traceback", what |-> what])
    /\ out' = [out EXCEPT !.open = FALSE, !.buf = <<>>]

\* open(out_path, 'w', encoding='utf-8') (line 162): creates or truncates the file
WriteOpen ==
    /\ pc = "report"
    /\ IF CanOpenForWrite(out_abs)
       THEN /\ pc' = "write"
            /\ out' = [out EXCEPT !.open = TRUE, !.path = out_abs, !.buf = <<>>, !.pos = 0]
            /\ data' = IF out_abs \in DOMAIN data
                       THEN [data EXCEPT ![out_abs] = <<>>]
                       ELSE [q \in DOMAIN data \cup {out_abs} |->
                               IF q = out_abs THEN <<>> ELSE data[q]]
            /\ dirs' = IF out_abs \in DOMAIN data THEN dirs
                       ELSE [dirs EXCEPT ![SubSeq(out_abs, 1, Len(out_abs) - 1)].filenames =
                                           Append(@, out_abs[Len(out_abs)])]
            /\ UNCHANGED <<stdout, exit_code>>
       ELSE /\ Raise("open")
            /\ UNCHANGED <<data, dirs>>
    /\ UNCHANGED <<cfg, cwd, ioerr, now, run, pending, files, file_index,
                   line_to_occurrences, block_to_occurrences, total_files,
                   total_lines, before, reports>>

\* the out.write calls of write_report, in three runs: 163-177, 180-189, 192-200
Chunk(k) ==
    IF k = 1 THEN ReportHead(out.ts, root_abs, cfg.min_line_length, cfg.block_size,
                             cfg.min_block_total_length, line_to_occurrences,
                             block_to_occurrences, total_files, total_lines)
    ELSE IF k = 2 THEN ReportBlocks(block_to_occurrences)
    ELSE ReportLines(line_to_occurrences)

\* the report write_report writes, whole
FullReport == Chunk(1) \o Chunk(2) \o Chunk(3)

\* out.write(...): the text goes to the buffer of the file object
WriteChunk ==
    /\ pc = "write"
    /\ out.pos < 3
    /\ out' = [out EXCEPT !.buf = @ \o Chunk(out.pos + 1), !.pos = @ + 1]
    /\ UNCHANGED <<cfg, cwd, dirs, data, ioerr, now, pc, run, pending, files, file_index,
                   line_to_occurrences, block_to_occurrences, total_files,
                   total_lines, stdout, exit_code, before, reports>>

\* the file object empties a full buffer into the file between two writes; the
\* buffer size is the runtime's, so when this happens is not fixed by the program
Flush ==
    /\ pc = "write"
    /\ out.buf # <<>>
    /\ out.pos < 3
    /\ data' = [data EXCEPT ![out.path] = @ \o out.buf]
    /\ out' = [out EXCEPT !.buf = <<>>]
    /\ UNCHANGED <<cfg, cwd, dirs, ioerr, now, pc, run, pending, files, file_index,
                   line_to_occurrences, block_to_occurrences, total_files,
                   total_lines, stdout, exit_code, before, reports>>

\* the with block ends (line 200): flush and close; write_report returns
WriteClose ==
    /\ pc = "write"
    /\ out.pos = 3
    /\ data' = [data EXCEPT ![out.path] = @ \o out.buf]
    /\ out' = [out EXCEPT !.open = FALSE, !.buf = <<>>]
    /\ reports' = Append(reports, data[out.path] \o out.buf)
    /\ pc' = "summary"
    /\ UNCHANGED <<cfg, cwd, dirs, ioerr, now, run, pending, files, file_index,
                   line_to_occurrences, block_to_occurrences, total_files,
                   total_lines, stdout, exit_code, before>>

\* the environment fails the open (permissions, read-only medium) or a write or
\* the closing flush (disk full, I/O error): OSError leaves write_report and main.
\* What reached the file stays; what was still buffered is lost.
WriteFail ==
    /\ pc \in {"report", "write"}
    /\ Raise(IF pc = "report" THEN "open" ELSE "write")
    /\ UNCHANGED <<cfg, cwd, dirs, data, ioerr, now, run, pending, files, file_index,
                   line_to_occurrences, block_to_occurrences, total_files,
                   total_lines, before, reports>>

\* the summary sorting the maps it was given in place
Summary_sorts_in_place ==
    /\ pc = "summary"
    /\ stdout' = stdout
                 \o print_console_summary(line_to_occurrences, block_to_occurrences,
                                          total_files, total_lines, TOP_N)
                 \o <<[t |-> "wrote", path |-> PathStr(out_abs)], [t |-> "elapsed"]>>
    /\ pc' = "done"
    /\ exit_code' = 0
    /\ line_to_occurrences' = SortedItems(line_to_occurrences)
    /\ block_to_occurrences' = SortedItems(block_to_occurrences)
    /\ UNCHANGED <<cfg, cwd, dirs, data, ioerr, now, run, pending, files, file_index,
                   total_files, total_lines, out, before, reports>>

\* main after write_report (lines 279-282), then the interpreter exits with 0
Summary ==
    /\ pc = "summary"
    /\ stdout' = stdout
                 \o print_console_summary(line_to_occurrences, block_to_occurrences,
                                          total_files, total_lines, TOP_N)
                 \o <<[t |-> "wrote", path |-> PathStr(out_abs)], [t |-> "elapsed"]>>
    /\ pc' = "done"
    /\ exit_code' = 0
    /\ UNCHANGED <<cfg, cwd, dirs, data, ioerr, now, run, pending, files, file_index,
                   line_to_occurrences, block_to_occurrences, total_files,
                   total_lines, out, before, reports>>

\* the process is killed from outside (SIGKILL): nothing of it runs any more,
\* and what its file object had buffered never reaches the file
Kill ==
    /\ exit_code = -1
    /\ pc' = "killed"
    /\ exit_code' = 137
    /\ out' = [out EXCEPT !.open = FALSE, !.buf = <<>>]
    /\ UNCHANGED <<cfg, cwd, dirs, data, ioerr, now, run, pending, files, file_index,
                   line_to_occurrences, block_to_occurrences, total_files,
                   total_lines, stdout, before, reports>>

\* how many times the tool is run in succession
MaxRuns == 2

\* the tool is run again, with the same command line, on the tree as the run
\* before left it
StartRun ==
    /\ pc = "done"
    /\ exit_code = 0
    /\ run < MaxRuns
    /\ run' = run + 1
    /\ now' = now + 1
    /\ pc' = "start"
    /\ exit_code' = -1
    /\ before' = Snapshot(out_abs)
    /\ pending' = <<>>
    /\ files' = <<>>
    /\ file_index' = 0
    /\ line_to_occurrences' = <<>>
    /\ block_to_occurrences' = <<>>
    /\ total_files' = 0
    /\ total_lines' = 0
    /\ out' = NoHandle
    /\ stdout' = <<>>
    /\ UNCHANGED <<cfg, cwd, dirs, data, ioerr, reports>>

(***************************************************************************)
(* Inputs.  Two worlds: a flat directory whose files hold every short       *)
(* sequence of a few short lines (for the indexer and the report), and a    *)
(* small tree with excluded directories, unreadable files, long lines, a    *)
(* file larger than the binary sample, and several output paths (for the    *)
(* whole run, run twice).                                                   *)
(***************************************************************************)
\* the most lines a generated file has
MaxLines == 3

SeqsUpTo(S, n) == UNION {[1..k -> S] : k \in 0..n}

NoErrors == [stat |-> {}, sample |-> {}, read |-> {}]

Args(root, outp, mll, bs, mbtl, mfs) ==
    [root |-> root, out |-> outp, min_line_length |-> mll, block_size |-> bs,
     min_block_total_length |-> mbtl, exclude_dir |-> <<>>, exclude_file |-> <<>>,
     max_file_size_bytes |-> mfs]

\* the default of --max-file-size-bytes (line 247)
DEFAULT_MAX_FILE_SIZE == 2097152

\* the state of a process just started, run 1
Started ==
    /\ now = 0
    /\ pc = "start"
    /\ run = 1
    /\ pending = <<>>
    /\ files = <<>>
    /\ file_index = 0
    /\ line_to_occurrences = <<>>
    /\ block_to_occurrences = <<>>
    /\ total_files = 0
    /\ total_lines = 0
    /\ out = NoHandle
    /\ stdout = <<>>
    /\ exit_code = -1
    /\ reports = <<>>

W == <<B("w")>>
A_PY == W \o <<B("a.py")>>
B_PY == W \o <<B("b.py")>>

\* raw lines of the generated file a.py
RawLineSet == {B("ab\n"), B(" ab \r\n"), B("cd\n"), B("}\n"), B("\n")}

\* contents of its neighbour b.py
FlatPartners ==
    {<<>>,
     B("cd\nab\nef\nef\nef\n"),
     B("ab\ncd\nab\ncd"),
     B("}\n}\nc") \o <<255>> \o B("d\n\nab\n")}

\* (min_line_length, block_size, min_block_total_length)
FlatParams ==
    {<<0, 2, 0>>, <<1, 2, 4>>, <<2, 2, 5>>, <<3, 3, 0>>, <<2, 1, 0>>, <<1, 3, 6>>,
     <<1, 0, 0>>, <<1, -1, 0>>}

InitFlat ==
    /\ Started
    /\ cwd = W
    /\ \E prm \in FlatParams :
         cfg = Args(<<DOT>>, <<B("duplicate_report.txt")>>, prm[1], prm[2], prm[3],
                    DEFAULT_MAX_FILE_SIZE)
    /\ dirs = (W :> [dirnames |-> <<>>, filenames |-> <<B("a.py"), B("b.py")>>])
    /\ \E la \in SeqsUpTo(RawLineSet, MaxLines), cb \in FlatPartners :
         data = (A_PY :> Flatten(la)) @@ (B_PY :> cb)
    /\ \E rf \in {{}, {B_PY}} : ioerr = [NoErrors EXCEPT !.read = rf]
    /\ before = [exists |-> FALSE, bytes |-> <<>>]

NextFlat ==
    \/ Main
    \/ ScanDir
    \/ ScanReturn
    \/ IndexFile
    \/ IndexReturn
    \/ WriteOpen
    \/ WriteChunk
    \/ WriteClose
    \/ Summary

\* the indexer and the report over the flat world, one run, no write failure
SpecIndex == InitFlat /\ [][NextFlat]_vars

\* lines of the tree world: long enough for the default thresholds
X_LINE == B("import requests_client_wrapper_lib")
Y_LINE == B("result = compute_value(first_argument)")
Z_LINE == B("return result")

\* 4096 bytes of text, then a NUL byte: the NUL lies beyond the binary sample
BigWithNul == [i \in 1..(SAMPLE_SIZE + 2) |->
                 IF i <= SAMPLE_SIZE THEN 97 ELSE IF i = SAMPLE_SIZE + 1 THEN NUL ELSE LF]

TreeContentsA ==
    {X_LINE \o B("\n") \o Y_LINE \o B("\n") \o Z_LINE \o B("\n"),
     <<>>,
     BigWithNul,
     B("ab") \o <<NUL>> \o B("cd\n") \o X_LINE \o B("\n"),
     X_LINE \o B("\n}\n}\n") \o X_LINE}

TreeContentsB ==
    {B("  ") \o X_LINE \o B("\r\n\t") \o Y_LINE \o B("\n") \o Z_LINE \o B("\n"),
     X_LINE \o B("\n") \o X_LINE \o B("\n"),
     BigWithNul}

TwoX == X_LINE \o B("\n") \o X_LINE \o B("\n")

T_DIR == <<B("t")>>
SRC == W \o <<B("src")>>

TreeDirs ==
    (W :> [dirnames |-> <<B("node_modules"), B("src")>>,
           filenames |-> <<B("a.py"), B("yarn.lock"), B("logo.PNG")>>])
    @@ ((W \o <<B("node_modules")>>) :> [dirnames |-> <<>>, filenames |-> <<B("x.js")>>])
    @@ (SRC :> [dirnames |-> <<B("build")>>, filenames |-> <<B("b.py")>>])
    @@ ((SRC \o <<B("build")>>) :> [dirnames |-> <<>>, filenames |-> <<B("gen.py")>>])
    @@ (T_DIR :> [dirnames |-> <<>>, filenames |-> <<>>])

SRC_B_PY == SRC \o <<B("b.py")>>

TreeData(ca, cb) ==
    (A_PY :> ca)
    @@ ((W \o <<B("yarn.lock")>>) :> TwoX)
    @@ ((W \o <<B("logo.PNG")>>) :> TwoX)
    @@ ((W \o <<B("node_modules"), B("x.js")>>) :> TwoX)
    @@ (SRC_B_PY :> cb)
    @@ ((SRC \o <<B("build"), B("gen.py")>>) :> TwoX)

TreeRoots == {<<DOT>>, <<B("missing")>>}

TreeOuts ==
    {<<B("duplicate_report.txt")>>,      \* the default: in the root, excluded by name
     <<B("dups.txt")>>,                  \* in the root, under another name
     <<<<>>, B("t"), B("out.txt")>>,     \* /t/out.txt: outside the root
     <<B("nodir"), B("out.txt")>>}       \* in a directory that does not exist

TreeParams == {<<20, 3, 50>>, <<1, 2, 2>>}

TreeMaxSizes == {DEFAULT_MAX_FILE_SIZE, 40}

TreeErrors ==
    {NoErrors,
     [NoErrors EXCEPT !.stat = {SRC_B_PY}],
     [NoErrors EXCEPT !.sample = {SRC_B_PY}],
     [NoErrors EXCEPT !.read = {SRC_B_PY}]}

Init ==
    /\ Started
    /\ cwd = W
    /\ \E r \in TreeRoots, o \in TreeOuts, prm \in TreeParams, mfs \in TreeMaxSizes :
         cfg = Args(r, o, prm[1], prm[2], prm[3], mfs)
    /\ dirs = TreeDirs
    /\ \E ca \in TreeContentsA, cb \in TreeContentsB : data = TreeData(ca, cb)
    /\ ioerr \in TreeErrors
    /\ before = [exists |-> FALSE, bytes |-> <<>>]

Next ==
    \/ Main
    \/ ScanDir
    \/ ScanReturn
    \/ IndexFile
    \/ IndexReturn
    \/ WriteOpen
    \/ WriteChunk
    \/ Flush
    \/ WriteClose
    \/ WriteFail
    \/ Summary
    \/ Kill
    \/ StartRun

Spec == Init /\ [][Next]_vars

(***************************************************************************)
(* A third world, for discovery: a deeper tree with excluded directories at *)
(* several depths, user exclusions, a size limit that one file meets        *)
(* exactly, failing stat / sample / read on several files, and a file s.txt *)
(* whose bytes run through the cases of the binary heuristic.               *)
(***************************************************************************)
\* the longest generated sample
MaxSampleLen == 10

\* bytes outside and inside the printable whitelist, at and around its edges
NonPrintables == <<1, 127, 255, 31, 8, 11>>
Printables == <<97, 9, 10, 13, 32, 126>>

\* n bytes, the first k of them not printable
Blob(k, n) ==
    [i \in 1..n |-> IF i <= k THEN NonPrintables[((i - 1) % Len(NonPrintables)) + 1]
                    ELSE Printables[((i - 1) % Len(Printables)) + 1]]

\* the same with one printable letter, so that a long file is one line
BigBlob(k, n) ==
    [i \in 1..n |-> IF i <= k THEN NonPrintables[((i - 1) % Len(NonPrintables)) + 1] ELSE 97]

\* printable text and one NUL byte, at its end
BlobWithNul(n) == [i \in 1..n |-> IF i = n THEN NUL ELSE 97]

\* contents of s.txt: every split of up to MaxSampleLen bytes, samples with a
\* NUL byte, and files longer than the sample, at the two sides of the ratio
\* and with bytes beyond the sample that the heuristic never sees
BlobContents ==
    {Blob(k, n) : k \in 0..MaxSampleLen, n \in 0..MaxSampleLen}
    \cup {BlobWithNul(n) : n \in 1..MaxSampleLen}
    \cup {BigBlob(1228, SAMPLE_SIZE), BigBlob(1229, SAMPLE_SIZE),
          BigBlob(1228, SAMPLE_SIZE) \o BigBlob(2000, 2000),
          BigBlob(0, SAMPLE_SIZE) \o BlobWithNul(3)}

LIB == W \o <<B("lib")>>
DEEP == LIB \o <<B("deep")>>
BUILD == DEEP \o <<B("build")>>
VENDOR == W \o <<B("vendor")>>
S_TXT == W \o <<B("s.txt")>>
LIB_B_PY == LIB \o <<B("b.py")>>
C_PY == DEEP \o <<B("c.py")>>
D_PY == DEEP \o <<B("ok"), B("d.py")>>

ScanTree ==
    (W :> [dirnames |-> <<B("lib"), B("node_modules"), B("gen"), B("vendor")>>,
           filenames |-> <<B("a.py"), B("yarn.lock"), B("notes.txt"), B("logo.PNG"), B("s.txt")>>])
    @@ (LIB :> [dirnames |-> <<B("deep")>>, filenames |-> <<B("b.py")>>])
    @@ (DEEP :> [dirnames |-> <<B("build"), B("ok")>>, filenames |-> <<B("c.py")>>])
    @@ (BUILD :> [dirnames |-> <<B("inner")>>, filenames |-> <<B("g.py")>>])
    @@ ((BUILD \o <<B("inner")>>) :> [dirnames |-> <<>>, filenames |-> <<B("h.py")>>])
    @@ ((DEEP \o <<B("ok")>>) :> [dirnames |-> <<>>, filenames |-> <<B("d.py")>>])
    @@ ((W \o <<B("node_modules")>>) :> [dirnames |-> <<>>, filenames |-> <<B("x.js")>>])
    @@ ((W \o <<B("gen")>>) :> [dirnames |-> <<>>, filenames |-> <<B("gen.py")>>])
    @@ (VENDOR :> [dirnames |-> <<B("bin")>>, filenames |-> <<B("v.py")>>])
    @@ ((VENDOR \o <<B("bin")>>) :> [dirnames |-> <<>>, filenames |-> <<B("t.py")>>])

\* 12 bytes and 13 bytes: at and just above the smaller size limit
TwelveBytes == B("x = 1\ny = 2\n")
ThirteenBytes == B("x = 1\nyy = 2\n")
SixBytes == B("x = 1\n")

\* the structural tokens, some near misses, and lines of one to three characters
TokenLines == B("{\n}\n);\n];\n],\n)\n;\n(\n[\n},\n;;\nab\n  ab  \nabc\n")

ScanData(blob) ==
    (A_PY :> TwelveBytes)
    @@ ((W \o <<B("yarn.lock")>>) :> SixBytes)
    @@ ((W \o <<B("notes.txt")>>) :> SixBytes)
    @@ ((W \o <<B("logo.PNG")>>) :> SixBytes)
    @@ (S_TXT :> blob)
    @@ (LIB_B_PY :> ThirteenBytes)
    @@ (C_PY :> TwelveBytes)
    @@ ((BUILD \o <<B("g.py")>>) :> SixBytes)
    @@ ((BUILD \o <<B("inner"), B("h.py")>>) :> SixBytes)
    @@ (D_PY :> TokenLines)
    @@ ((W \o <<B("node_modules"), B("x.js")>>) :> SixBytes)
    @@ ((W \o <<B("gen"), B("gen.py")>>) :> SixBytes)
    @@ ((VENDOR \o <<B("v.py")>>) :> SixBytes)
    @@ ((VENDOR \o <<B("bin"), B("t.py")>>) :> SixBytes)

ScanRoots == {<<DOT>>, <<B("vendor")>>}
ScanExcludeDirs == {<<>>, <<B("gen")>>, <<B("ok"), B("node_modules")>>}
ScanExcludeFiles == {<<>>, <<B("notes.txt")>>, <<B("c.py"), B("yarn.lock")>>}
ScanMaxSizes == {DEFAULT_MAX_FILE_SIZE, 12, 0}
ScanStatErrors == {{}, {A_PY}, {C_PY}}
ScanSampleErrors == {{}, {LIB_B_PY}, {A_PY, S_TXT}}
ScanReadErrors == {{}, {LIB_B_PY}, {A_PY, D_PY}}
ScanMinLineLengths == {0, 1, 2, 3, 4}

ScanArgs(root, xd, xf, mfs) ==
    [Args(root, <<B("duplicate_report.txt")>>, 1, 2, 0, mfs)
       EXCEPT !.exclude_dir = xd, !.exclude_file = xf]

\* every command line and every failure over one content of s.txt, or every
\* content of s.txt under a few command lines, or every minimum line length
\* over the whole tree
InitScan ==
    /\ Started
    /\ cwd = W
    /\ dirs = ScanTree
    /\ before = [exists |-> FALSE, bytes |-> <<>>]
    /\ \/ /\ \E r \in ScanRoots, xd \in ScanExcludeDirs, xf \in ScanExcludeFiles,
                  mfs \in ScanMaxSizes : cfg = ScanArgs(r, xd, xf, mfs)
          /\ data = ScanData(Blob(3, 10))
          /\ \E st \in ScanStatErrors, sm \in ScanSampleErrors, rd \in ScanReadErrors :
                  ioerr = [stat |-> st, sample |-> sm, read |-> rd]
       \/ /\ \E mfs \in ScanMaxSizes : cfg = ScanArgs(<<DOT>>, <<>>, <<>>, mfs)
          /\ \E blob \in BlobContents : data = ScanData(blob)
          /\ \E sm \in ScanSampleErrors : ioerr = [NoErrors EXCEPT !.sample = sm]
       \/ /\ \E mll \in ScanMinLineLengths :
                  cfg = [ScanArgs(<<DOT>>, <<>>, <<>>, DEFAULT_MAX_FILE_SIZE)
                           EXCEPT !.min_line_length = mll]
          /\ data = ScanData(Blob(3, 10))
          /\ ioerr = NoErrors

NextScan ==
    \/ Main
    \/ ScanDir
    \/ ScanReturn
    \/ IndexFile
    \/ IndexReturn

\* discovery and indexing over the third world
SpecScan == InitScan /\ [][NextScan]_vars

(***************************************************************************)
(* A fourth world, for the relations between lines: three files in one      *)
(* directory, the first holding every short sequence of lines that differ   *)
(* in indentation, terminator and internal spacing.                         *)
(***************************************************************************)
\* raw lines of the generated file a.py
SpacingLines == {B("a b\n"), B("  a b\r\n"), B("a  b\n"), B("ab\n"), B("\tab \n")}

\* contents of b.py: with a block that repeats inside the file, or without "ab"
LinePartners == {B("ab\na b\nab\na b"), B("a  b\n}\n")}

\* content of c.py
ThirdFile == B(" a b\nab \n")

FLAT_C_PY == W \o <<B("c.py")>>

\* (min_line_length, block_size, min_block_total_length)
LineParams == {<<1, 2, 0>>, <<3, 2, 5>>, <<2, 3, 0>>}

InitLines ==
    /\ Started
    /\ cwd = W
    /\ \E prm \in LineParams :
         cfg = Args(<<DOT>>, <<B("duplicate_report.txt")>>, prm[1], prm[2], prm[3],
                    DEFAULT_MAX_FILE_SIZE)
    /\ dirs = (W :> [dirnames |-> <<>>, filenames |-> <<B("a.py"), B("b.py"), B("c.py")>>])
    /\ \E la \in SeqsUpTo(SpacingLines, MaxLines), cb \in LinePartners :
         data = (A_PY :> Flatten(la)) @@ (B_PY :> cb) @@ (FLAT_C_PY :> ThirdFile)
    /\ ioerr = NoErrors
    /\ before = [exists |-> FALSE, bytes |-> <<>>]

\* the whole run over the fourth world, without write failure
SpecLines == InitLines /\ [][NextFlat]_vars

(***************************************************************************)
(* The fifth world: many groups, many occurrences, many files.  Either two  *)
(* files that share a run of distinct lines and a line repeated many times, *)
(* so that the number of groups and of occurrences lies around the limits   *)
(* of the console summary, or one directory of some hundreds of small files *)
(* around the multiples of the progress interval, some of them unreadable.  *)
(***************************************************************************)
MaxGroups == 12
MaxRepeats == 12
MaxFiles == 401

\* the i-th distinct line: x19, x18, ... (later lines sort before earlier ones,
\* and x10 sorts before x9)
GroupLine(i) == B("x") \o Str(20 - i) \o B("\n")

HotLine == B("hot\n")

\* g distinct lines, then the hot line r times, then a tail
ManyContent(g, r, tail) ==
    Flatten([i \in 1..g |-> GroupLine(i)]) \o Flatten([i \in 1..r |-> HotLine]) \o tail

\* what follows in a.py: nothing, or lines that raise the count of x18, x15
ManyTails == {<<>>, B("x18\n"), B("x15\nx18\nx15\n")}

\* the i-th file of the large directory
FileName(i) == B("f") \o Str(i)

\* how many files the large directory holds
FileCounts == {199, 200, 201, MaxFiles - 2, MaxFiles - 1, MaxFiles}

\* which of them cannot be read (by number)
UnreadableSets == {{}, {7}, {200}, {199, 201}, {200, 400}}

InitMany ==
    /\ Started
    /\ cwd = W
    /\ cfg = Args(<<DOT>>, <<B("duplicate_report.txt")>>, 2, 2, 0, DEFAULT_MAX_FILE_SIZE)
    /\ before = [exists |-> FALSE, bytes |-> <<>>]
    /\ \/ /\ dirs = (W :> [dirnames |-> <<>>, filenames |-> <<B("a.py"), B("b.py")>>])
          /\ \E g \in 8..MaxGroups, r \in 8..MaxRepeats, tail \in ManyTails :
               data = (A_PY :> ManyContent(g, r, tail)) @@ (B_PY :> ManyContent(g, 2, <<>>))
          /\ ioerr = NoErrors
       \/ \E n \in FileCounts, bad \in UnreadableSets :
            /\ dirs = (W :> [dirnames |-> <<>>, filenames |-> [i \in 1..n |-> FileName(i)]])
            /\ data = [f \in {Append(W, FileName(i)) : i \in 1..n} |->
                         IF f \in {Append(W, FileName(1)), Append(W, FileName(n))}
                         THEN HotLine \o HotLine ELSE <<>>]
            /\ ioerr = [NoErrors EXCEPT !.read = {Append(W, FileName(i)) : i \in bad \cap 1..n}]

\* the whole run over the fifth world, without write failure
SpecMany == InitMany /\ [][NextFlat]_vars

(***************************************************************************)
(* Properties.                                                              *)
(***************************************************************************)
\* index_duplicates has just returned: nothing of write_report has run yet
Returned == pc = "report"

\* the lines the indexer reads from a candidate; a candidate it cannot read has none
CandidateLines(p) ==
    IF p \in ioerr.read \/ p \notin DOMAIN data THEN <<>> ELSE readlines(data[p])

NormalizedLines(p) ==
    LET raw == CandidateLines(p) IN [i \in 1..Len(raw) |-> normalize_line(raw[i])]

\* the number of lines of a text file: its line feeds (after newline translation),
\* and one more for an unterminated last line
CountLines(bytes) ==
    LET t == UniversalNewlines(Decode(bytes))
    IN  Cardinality({i \in 1..Len(t) : t[i] = LF})
        + (IF t # <<>> /\ t[Len(t)] # LF THEN 1 ELSE 0)

RECURSIVE SumLineCounts(_, _, _)
SumLineCounts(paths, n, skipped) ==
    IF n = 0 THEN 0
    ELSE SumLineCounts(paths, n - 1, skipped)
         + (IF paths[n] \in skipped THEN 0 ELSE CountLines(data[paths[n]]))

AllOccurrences(d) == UNION {Range(d[i].v) : i \in 1..Len(d)}

\* (candidate number, line number) of every line of every candidate
LinePositions ==
    UNION {{<<j, i>> : i \in 1..Len(CandidateLines(files[j]))} : j \in 1..Len(files)}

\* C1: after index_duplicates returns, every key of the line map and of the
\* block map has at least 2 occurrences.
C1_RetainedGroupsHaveTwo ==
    pc \in {"report", "write", "summary", "done"} =>
        /\ \A i \in 1..Len(line_to_occurrences) : Len(line_to_occurrences[i].v) >= 2
        /\ \A i \in 1..Len(block_to_occurrences) : Len(block_to_occurrences[i].v) >= 2

\* both maps retain a group, and a line that was recorded once has been discarded
C1_Witness ==
    /\ Returned
    /\ line_to_occurrences # <<>>
    /\ block_to_occurrences # <<>>
    /\ \E pos \in LinePositions :
         LET text == NormalizedLines(files[pos[1]])[pos[2]]
         IN  /\ ~should_skip_line(text, cfg.min_line_length)
             /\ text \notin DictKeys(line_to_occurrences)

\* C2: for every retained line key, the occurrence list holds exactly the
\* (candidate, 1-based line number) pairs whose stripped text is the key and is
\* not rejected by the skip rule: as many entries as there are such pairs, none
\* missing, no other present.
C2_LineGroupsExact ==
    Returned =>
        \A g \in 1..Len(line_to_occurrences) :
            LET item == line_to_occurrences[g]
                pairs == {pos \in LinePositions :
                            LET text == NormalizedLines(files[pos[1]])[pos[2]]
                            IN  text = item.k /\ ~should_skip_line(text, cfg.min_line_length)}
            IN  /\ Len(item.v) = Cardinality(pairs)
                /\ Range(item.v) = {<<relpath(files[pos[1]], root_abs), pos[2]>> : pos \in pairs}

\* a retained line group with occurrences in two files, one of them written with
\* other surrounding whitespace, beside a line the skip rule rejects
C2_Witness ==
    /\ Returned
    /\ \E g \in 1..Len(line_to_occurrences) :
         /\ Cardinality({occ[1] : occ \in Range(line_to_occurrences[g].v)}) = 2
         /\ \E pos \in LinePositions :
              /\ CandidateLines(files[pos[1]])[pos[2]] = B(" ab \n")   \* read from " ab \r\n"
              /\ line_to_occurrences[g].k = B("ab")
    /\ \E pos \in LinePositions :
         LET text == NormalizedLines(files[pos[1]])[pos[2]]
         IN  text # <<>> /\ should_skip_line(text, cfg.min_line_length)

\* (candidate number, 0-based start) of every window of block_size lines
WindowPositions ==
    UNION {{<<j, st>> : st \in 0..(Len(CandidateLines(files[j])) - cfg.block_size)} :
           j \in 1..Len(files)}

WindowAt(pos) == SubSeq(NormalizedLines(files[pos[1]]), pos[2] + 1, pos[2] + cfg.block_size)

\* C3: for every retained block key, the occurrence list holds exactly the
\* windows (all candidates, all starts s in 0..len(lines)-block_size) whose
\* normalized lines joined by newline are the key, without the windows that
\* contain an empty line or whose line lengths sum to less than
\* min_block_total_length; a window at start s is recorded at line s+1.
C3_BlockGroupsExact ==
    Returned =>
        \A g \in 1..Len(block_to_occurrences) :
            LET item == block_to_occurrences[g]
                wins == {pos \in WindowPositions :
                           LET window == WindowAt(pos)
                           IN  /\ Join(<<LF>>, window) = item.k
                               /\ \A n \in 1..Len(window) : window[n] # <<>>
                               /\ SumLen(window) >= cfg.min_block_total_length}
            IN  /\ Len(item.v) = Cardinality(wins)
                /\ Range(item.v) = {<<relpath(files[pos[1]], root_abs), pos[2] + 1>> : pos \in wins}

\* a retained block group, beside a window left out for an empty line and a
\* window of a file that has exactly block_size lines
C3_Witness ==
    /\ Returned
    /\ block_to_occurrences # <<>>
    /\ \E pos \in WindowPositions : \E n \in 1..cfg.block_size : WindowAt(pos)[n] = <<>>
    /\ \E j \in 1..Len(files) :
         /\ Len(CandidateLines(files[j])) = cfg.block_size
         /\ \E occ \in AllOccurrences(block_to_occurrences) : occ[1] = relpath(files[j], root_abs)

\* a report without its second line, the time stamp line
WithoutTimestamp(report) ==
    LET ls == SplitLines(report)
    IN  IF Len(ls) < 2 THEN ls ELSE <<ls[1]>> \o SubSeq(ls, 3, Len(ls))

\* C4: two runs in succession with the same configuration, on a tree that
\* nothing else changes, write reports that are identical except for the time
\* stamp line, for every choice of --root and --out.
C4_Idempotent ==
    Len(reports) >= 2 => WithoutTimestamp(reports[1]) = WithoutTimestamp(reports[2])

\* what the output path holds
OutFile == Snapshot(out_abs)

\* C5: when the run has ended (normally, by a write failure, or by a kill), the
\* output path is as it was before the run or holds a complete report; it never
\* holds a truncated or partly written one.
C5_NoPartialReport ==
    pc \in {"done", "killed"} =>
        \/ OutFile = before
        \/ OutFile.exists /\ OutFile.bytes = FullReport

TracebackPrinted == \E i \in 1..Len(stdout) : stdout[i].t = "traceback"
SummaryPrinted == \E i \in 1..Len(stdout) : stdout[i].t = "summary"

\* C6: the process exits non-zero if and only if writing the report failed.  A
\* run that wrote its report exits 0, with or without duplicates and also when
\* the root does not exist; a failure to open or write the output file ends the
\* run with a non-zero exit before the console summary is printed.
C6_ExitCode ==
    /\ pc \notin {"done", "killed"} => exit_code = -1
    /\ pc = "done" =>
         /\ exit_code # 0 <=> TracebackPrinted
         /\ exit_code = 0 =>
              /\ Len(reports) = run
              /\ OutFile.exists /\ OutFile.bytes = reports[run]
              /\ SummaryPrinted
         /\ exit_code # 0 =>
              /\ Len(reports) = run - 1
              /\ ~SummaryPrinted

\* the first run scanned a root that does not exist, found nothing, wrote its
\* report and exited 0; the second failed to write and exited non-zero
C6_Witness ==
    /\ run = 2
    /\ pc = "done"
    /\ exit_code # 0
    /\ root_abs \notin DOMAIN dirs
    /\ files = <<>>
    /\ Len(reports) = 1

\* C7 as claimed: every line of every candidate is counted in total_lines, no
\* candidate is dropped by the indexer.
C7_EveryCandidateCounted ==
    Returned => total_lines = SumLineCounts(files, Len(files), {})

\* C7, amended: total_lines is the sum of the line counts of the candidates the
\* indexer could read (all of them, while it has read the first file_index); a
\* candidate whose read fails is counted in total_files and adds no line.
C7_ReadCandidatesCounted ==
    pc \in {"index", "report"} =>
        /\ total_lines = SumLineCounts(files, file_index, ioerr.read)
        /\ total_files = file_index
        /\ Returned => file_index = Len(files)

\* two candidates with lines, the read of one of them failed
C7_Witness ==
    /\ Returned
    /\ \E j \in 1..Len(files) : files[j] \in ioerr.read /\ CountLines(data[files[j]]) > 0
    /\ \E j \in 1..Len(files) : files[j] \notin ioerr.read /\ CountLines(data[files[j]]) > 0
    /\ total_lines > 0

HasNul(bytes) == \E i \in 1..Len(bytes) : bytes[i] = NUL

\* the files os.walk reaches from the root: no directory above them is pruned
Reached(p) ==
    /\ p \in DOMAIN data
    /\ Len(p) > Len(root_abs)
    /\ SubSeq(p, 1, Len(root_abs)) = root_abs
    /\ root_abs \in DOMAIN dirs
    /\ \A n \in (Len(root_abs) + 1)..(Len(p) - 1) : p[n] \notin exclude_dirs(cfg)

\* file p adds nothing to the index
ContributesNothing(p) ==
    /\ p \notin Range(files)
    /\ \A occ \in AllOccurrences(line_to_occurrences) \cup AllOccurrences(block_to_occurrences) :
         occ[1] # relpath(p, root_abs)
    /\ total_lines <= SumLineCounts(files, file_index, {p})

\* C8 as claimed: a file with a NUL byte at any offset is never a candidate and
\* adds nothing to total_lines or to either map.
C8_NulAnywhereExcluded ==
    pc \in {"scan", "index", "report"} =>
        \A p \in DOMAIN data : HasNul(data[p]) => ContributesNothing(p)

\* C8, amended: a file with a NUL byte among its first 4096 bytes is never a
\* candidate and adds nothing to total_lines or to either map.
C8_NulInSampleExcluded ==
    pc \in {"scan", "index", "report"} =>
        \A p \in DOMAIN data :
            HasNul(SubSeq(data[p], 1, Min({SAMPLE_SIZE, Len(data[p])}))) => ContributesNothing(p)

\* a file that passes every other filter and has a NUL byte in its first bytes,
\* in a scan that indexed lines of other files
C8_Witness ==
    /\ Returned
    /\ total_lines > 0
    /\ \E p \in DOMAIN data :
         /\ Reached(p)
         /\ HasNul(SubSeq(data[p], 1, Min({SAMPLE_SIZE, Len(data[p])})))
         /\ 10 * Cardinality({i \in 1..Len(data[p]) : data[p][i] \notin PRINTABLE_WHITELIST})
              <= 3 * Len(data[p])
         /\ Len(data[p]) <= cfg.max_file_size_bytes
         /\ p[Len(p)] \notin exclude_files(cfg)
         /\ Lower(splitext_ext(p[Len(p)])) \notin BINARY_EXTENSIONS
         /\ p \notin ioerr.stat \cup ioerr.sample

\* C9: a line that is just "}" never becomes a key of the line map, whatever
\* min_line_length is (0 and 1 included) and however often it is repeated.
C9_BraceNeverKey ==
    \A i \in 1..Len(line_to_occurrences) : line_to_occurrences[i].k # B("}")

\* the indexer has read at least three "}" lines with min_line_length below 2
C9_Witness ==
    /\ Returned
    /\ cfg.min_line_length <= 1
    /\ Cardinality({pos \in LinePositions :
                      NormalizedLines(files[pos[1]])[pos[2]] = B("}")}) >= 3

\* the orders in which the items of a dict can be listed
Arrangements(d) ==
    {[i \in 1..Len(d) |-> d[perm[i]]] : perm \in Permutations(1..Len(d))}

\* count descending, equal counts by key ascending: each group strictly before the next
StrictlyOrdered(items) ==
    \A i, j \in 1..Len(items) :
        i < j => \/ Len(items[i].v) > Len(items[j].v)
                 \/ Len(items[i].v) = Len(items[j].v) /\ LexLess(items[i].k, items[j].k)

\* the report whose detailed sections list the groups in the given orders
ReportListing(blocks, lines) ==
    Chunk(1)
    \o B("=== Duplicate 3-line blocks (details) ===\n\n") \o GroupEntries(blocks, B("Block:\n"))
    \o B("=== Duplicate lines (details) ===\n\n") \o GroupEntries(lines, B("Line:\n"))

\* C10: in each detailed section of the written report the groups are sorted by
\* occurrence count descending, equal counts by key ascending; that order is
\* total, so the report is the same for every insertion order of the maps.
C10_ReportOrder ==
    pc = "summary" =>
        /\ \E blocks \in Arrangements(block_to_occurrences) : StrictlyOrdered(blocks)
        /\ \E lines \in Arrangements(line_to_occurrences) : StrictlyOrdered(lines)
        /\ \A blocks \in Arrangements(block_to_occurrences), lines \in Arrangements(line_to_occurrences) :
             /\ StrictlyOrdered(blocks) /\ StrictlyOrdered(lines)
                  => data[out_abs] = ReportListing(blocks, lines)
             /\ SortedItems(blocks) = SortedItems(block_to_occurrences)
             /\ SortedItems(lines) = SortedItems(line_to_occurrences)

\* the line map holds, in insertion order, a group before one with more
\* occurrences and a group before one of equal count and lesser key; the block
\* map holds two groups
C10_Witness ==
    /\ pc = "summary"
    /\ Len(block_to_occurrences) >= 2
    /\ \E i, j \in 1..Len(line_to_occurrences) :
         i < j /\ Len(line_to_occurrences[i].v) < Len(line_to_occurrences[j].v)
    /\ \E i, j \in 1..Len(line_to_occurrences) :
         /\ i < j
         /\ Len(line_to_occurrences[i].v) = Len(line_to_occurrences[j].v)
         /\ LexLess(line_to_occurrences[j].k, line_to_occurrences[i].k)

\* the place of a file in the candidate list, by the relative path recorded for it
FilePosition(rel_path) ==
    CHOOSE j \in 1..Len(files) : relpath(files[j], root_abs) = rel_path

\* an occurrence list in the order of the candidate list, then of the line numbers
OccurrencesOrdered(occs) ==
    \A a, b \in 1..Len(occs) :
        a < b => \/ FilePosition(occs[a][1]) < FilePosition(occs[b][1])
                 \/ occs[a][1] = occs[b][1] /\ occs[a][2] < occs[b][2]

\* C11: in every occurrence list of the line map and of the block map, while
\* the indexer runs and when it has returned, the occurrences follow the order
\* of their files in the candidate list, and those of one file have strictly
\* increasing line (start) numbers.
C11_OccurrenceOrder ==
    pc \in {"index", "report"} =>
        /\ \A g \in 1..Len(line_to_occurrences) : OccurrencesOrdered(line_to_occurrences[g].v)
        /\ \A g \in 1..Len(block_to_occurrences) : OccurrencesOrdered(block_to_occurrences[g].v)

\* a returned group with several occurrences in one file and some in another
SpansFiles(occs) ==
    /\ \E a, b \in 1..Len(occs) : a # b /\ occs[a][1] = occs[b][1]
    /\ \E a, b \in 1..Len(occs) : occs[a][1] # occs[b][1]

\* such a group in the line map and one in the block map
C11_Witness ==
    /\ Returned
    /\ \E g \in 1..Len(line_to_occurrences) : SpansFiles(line_to_occurrences[g].v)
    /\ \E g \in 1..Len(block_to_occurrences) : SpansFiles(block_to_occurrences[g].v)

\* the names on the way from the root down to path p, p's own name included
NamesBelowRoot(p) == {p[n] : n \in (Len(root_abs) + 1)..Len(p)}

\* path p lies inside a directory below the root whose name is excluded
InExcludedSubtree(p) ==
    \E n \in (Len(root_abs) + 1)..(Len(p) - 1) : p[n] \in exclude_dirs(cfg)

\* the file whose relative path an occurrence records
FileOfOccurrence(occ) == CHOOSE f \in Range(files) : relpath(f, root_abs) = occ[1]

\* C12: the walk never enters an excluded subtree.  A directory is listed, and
\* its files are stat'ed and sampled, only when it is the head of the pending
\* list, and a file is read only when it is a candidate: so no directory that
\* is pending has an excluded name on its way down from the root (its own name
\* included), no candidate lies in an excluded subtree, and every occurrence
\* recorded belongs to a candidate.
C12_ExcludedSubtreesNeverWalked ==
    /\ \A d \in Range(pending) : NamesBelowRoot(d) \cap exclude_dirs(cfg) = {}
    /\ \A f \in Range(files) : ~InExcludedSubtree(f)
    /\ \A occ \in AllOccurrences(line_to_occurrences) \cup AllOccurrences(block_to_occurrences) :
         /\ \E f \in Range(files) : relpath(f, root_abs) = occ[1]
         /\ ~InExcludedSubtree(FileOfOccurrence(occ))

\* the filters of scan_files other than the pruning hold of file p
PassesFileFilters(p) ==
    /\ p[Len(p)] \notin exclude_files(cfg)
    /\ p \notin ioerr.stat \cup ioerr.sample
    /\ Len(data[p]) <= cfg.max_file_size_bytes
    /\ Lower(splitext_ext(p[Len(p)])) \notin BINARY_EXTENSIONS
    /\ ~SampleIsBinary(SubSeq(data[p], 1, Min({SAMPLE_SIZE, Len(data[p])})))

BelowRoot(p) ==
    /\ Len(p) > Len(root_abs)
    /\ SubSeq(p, 1, Len(root_abs)) = root_abs

\* the scan has returned candidates; below the root there are a file two
\* directories deep in a subtree excluded by default, and a file in a
\* directory the command line excludes, that pass every filter for files
C12_Witness ==
    /\ pc = "index"
    /\ files # <<>>
    /\ \E p \in DOMAIN data :
         /\ BelowRoot(p) /\ PassesFileFilters(p)
         /\ \E n \in (Len(root_abs) + 1)..(Len(p) - 2) : p[n] \in DEFAULT_EXCLUDE_DIRS
    /\ \E p \in DOMAIN data :
         /\ BelowRoot(p) /\ PassesFileFilters(p)
         /\ \E n \in (Len(root_abs) + 1)..(Len(p) - 1) :
              p[n] \in Range(cfg.exclude_dir) \ DEFAULT_EXCLUDE_DIRS

\* C13: whatever --exclude-dir and --exclude-file values the command line
\* gives, the sets scan_files works with contain every default entry and every
\* given value; accordingly no directory with a default-excluded name below the
\* root is ever pending and no file with a default-excluded name is a candidate.
C13_ExclusionsAdditive ==
    /\ DEFAULT_EXCLUDE_DIRS \subseteq exclude_dirs(cfg)
    /\ Range(cfg.exclude_dir) \subseteq exclude_dirs(cfg)
    /\ DEFAULT_EXCLUDE_FILES \subseteq exclude_files(cfg)
    /\ Range(cfg.exclude_file) \subseteq exclude_files(cfg)
    /\ \A d \in Range(pending) : NamesBelowRoot(d) \cap DEFAULT_EXCLUDE_DIRS = {}
    /\ \A f \in Range(files) :
         /\ f[Len(f)] \notin DEFAULT_EXCLUDE_FILES
         /\ \A n \in (Len(root_abs) + 1)..(Len(f) - 1) : f[n] \notin DEFAULT_EXCLUDE_DIRS

\* the command line names a directory and a file to exclude, one of the values
\* being a default already; the scan has passed the root's children, among them
\* a directory excluded only by default and a text file with a default-excluded name
C13_Witness ==
    /\ pc = "index"
    /\ files # <<>>
    /\ Range(cfg.exclude_dir) \ DEFAULT_EXCLUDE_DIRS # {}
    /\ Range(cfg.exclude_dir) \cap DEFAULT_EXCLUDE_DIRS # {}
    /\ Range(cfg.exclude_file) \ DEFAULT_EXCLUDE_FILES # {}
    /\ Range(cfg.exclude_file) \cap DEFAULT_EXCLUDE_FILES # {}
    /\ \E i \in 1..Len(dirs[root_abs].dirnames) :
         dirs[root_abs].dirnames[i] \in DEFAULT_EXCLUDE_DIRS \ Range(cfg.exclude_dir)
    /\ \E p \in DOMAIN data :
         /\ BelowRoot(p)
         /\ p[Len(p)] \in DEFAULT_EXCLUDE_FILES
         /\ Lower(splitext_ext(p[Len(p)])) \notin BINARY_EXTENSIONS
         /\ ~SampleIsBinary(data[p])

\* what scan_files would decide about file p if no stat and no sample read failed
PassesWithoutFailures(p) ==
    /\ p[Len(p)] \notin exclude_files(cfg)
    /\ Len(data[p]) <= cfg.max_file_size_bytes
    /\ Lower(splitext_ext(p[Len(p)])) \notin BINARY_EXTENSIONS
    /\ ~SampleIsBinary(SubSeq(data[p], 1, Min({SAMPLE_SIZE, Len(data[p])})))

\* C14: a failing stat or a failing sample read makes scan_files skip that file
\* and nothing else: the scan never ends in an exception, and the list it
\* returns holds, once each, exactly the files it would return without
\* failures, less the files whose stat or sample read fails.
C14_DiscoveryFailuresSkipOneFile ==
    /\ pc \in {"scan", "index", "report"} => exit_code = -1 /\ ~TracebackPrinted
    /\ pc \in {"index", "report"} =>
         /\ Range(files) = {p \in DOMAIN data : Reached(p) /\ PassesWithoutFailures(p)}
                             \ (ioerr.stat \cup ioerr.sample)
         /\ Cardinality(Range(files)) = Len(files)

\* the stat of one file and the sample read of another fail, both files passing
\* every filter otherwise; the scan returned files listed before and after them
C14_Witness ==
    /\ pc = "index"
    /\ \E p \in ioerr.stat, q \in ioerr.sample :
         /\ p # q
         /\ Reached(p) /\ PassesWithoutFailures(p) /\ p \notin ioerr.sample
         /\ Reached(q) /\ PassesWithoutFailures(q) /\ q \notin ioerr.stat
         /\ p \notin Range(files) /\ q \notin Range(files)
    /\ {A_PY, D_PY} \subseteq Range(files)

\* the maps and the line count after indexing the first n files of list fs, all
\* of them readable
RECURSIVE IndexedThrough(_, _)
IndexedThrough(fs, n) ==
    IF n = 0 THEN [lines |-> <<>>, blocks |-> <<>>, total |-> 0]
    ELSE LET prev == IndexedThrough(fs, n - 1)
             raw == readlines(data[fs[n]])
             norm == [i \in 1..Len(raw) |-> normalize_line(raw[i])]
             rel == relpath(fs[n], root_abs)
         IN  [lines |-> IndexLines(prev.lines, rel, norm, cfg.min_line_length, 1),
              blocks |-> IndexBlocks(prev.blocks, rel, norm, cfg.block_size,
                                     cfg.min_block_total_length),
              total |-> prev.total + Len(raw)]

\* the candidates processed so far, without those whose read fails
ReadableProcessed ==
    SelectSeq(SubSeq(files, 1, file_index), LAMBDA p : p \notin ioerr.read)

\* C15: a candidate whose read fails adds no occurrence and no line and does
\* not stop the indexer: the loop goes on to the last candidate without an
\* exception, and at every point the maps and total_lines are those of indexing
\* the list of the candidates processed so far with the failing ones taken out
\* (filtered to the groups of two or more once index_duplicates has returned).
C15_ReadFailureContributesNothing ==
    pc \in {"index", "report"} =>
        LET expected == IndexedThrough(ReadableProcessed, Len(ReadableProcessed))
        IN  /\ exit_code = -1 /\ ~TracebackPrinted
            /\ total_lines = expected.total
            /\ total_files = file_index
            /\ pc = "index" =>
                 /\ line_to_occurrences = expected.lines
                 /\ block_to_occurrences = expected.blocks
            /\ pc = "report" =>
                 /\ file_index = Len(files)
                 /\ line_to_occurrences = FilterDuplicates(expected.lines)
                 /\ block_to_occurrences = FilterDuplicates(expected.blocks)

\* the read of a candidate with lines failed; candidates before it and after it
\* in the list were read, and both maps hold groups with occurrences in them
C15_Witness ==
    /\ Returned
    /\ \E i, j, k \in 1..Len(files) :
         /\ i < j /\ j < k
         /\ files[j] \in ioerr.read
         /\ CountLines(data[files[j]]) > 0
         /\ files[i] \notin ioerr.read
         /\ files[k] \notin ioerr.read
         /\ \E g \in 1..Len(line_to_occurrences) :
              {relpath(files[i], root_abs), relpath(files[k], root_abs)}
                 \subseteq {occ[1] : occ \in Range(line_to_occurrences[g].v)}
    /\ block_to_occurrences # <<>>

\* the binary-content heuristic's verdict on file p; a sample that cannot be
\* read counts as binary
ClassifiedBinary(p) ==
    is_probably_binary(data[p], p \in ioerr.sample, SAMPLE_SIZE)

\* C16: when scan_files has returned, a file reached by the walk is in the list
\* if and only if its name is not in the exclude-file set, its stat succeeds,
\* its size is not greater than max_file_size_bytes, its lower-cased extension
\* is not in the denylist and the heuristic classifies it as not binary; and
\* the list holds nothing but files reached by the walk.
C16_CandidateIffFilters ==
    pc \in {"index", "report"} =>
        /\ \A p \in DOMAIN data :
             Reached(p) =>
                (p \in Range(files) <=>
                    /\ p[Len(p)] \notin exclude_files(cfg)
                    /\ p \notin ioerr.stat
                    /\ ~(Len(data[p]) > cfg.max_file_size_bytes)
                    /\ Lower(splitext_ext(p[Len(p)])) \notin BINARY_EXTENSIONS
                    /\ ~ClassifiedBinary(p))
        /\ \A p \in Range(files) : Reached(p)

\* a file of exactly max_file_size_bytes is a candidate; a file one byte larger
\* with plain text is not; files are left out for their name, for their
\* upper-case extension, and for a failing stat
C16_Witness ==
    /\ pc = "index"
    /\ \E p \in Range(files) : Len(data[p]) = cfg.max_file_size_bytes /\ Len(data[p]) > 0
    /\ \E p \in DOMAIN data :
         /\ Reached(p) /\ p \notin Range(files)
         /\ Len(data[p]) = cfg.max_file_size_bytes + 1
         /\ p[Len(p)] \notin exclude_files(cfg)
         /\ p \notin ioerr.stat
         /\ Lower(splitext_ext(p[Len(p)])) \notin BINARY_EXTENSIONS
         /\ ~ClassifiedBinary(p)
    /\ \E p \in DOMAIN data :
         /\ Reached(p) /\ Len(data[p]) <= cfg.max_file_size_bytes
         /\ splitext_ext(p[Len(p)]) \notin BINARY_EXTENSIONS
         /\ Lower(splitext_ext(p[Len(p)])) \in BINARY_EXTENSIONS
    /\ \E p \in DOMAIN data :
         /\ Reached(p) /\ Len(data[p]) <= cfg.max_file_size_bytes
         /\ p[Len(p)] \in Range(cfg.exclude_file)
    /\ \E p \in ioerr.stat : Reached(p) /\ PassesWithoutFailures(p)

\* the first up-to-4096 bytes of file p
SampleOf(p) == SubSeq(data[p], 1, Min({4096, Len(data[p])}))

\* the number of bytes of a sample outside {9, 10, 13, 32..126}
NonPrintableCount(sample) ==
    Cardinality({i \in 1..Len(sample) : sample[i] \notin ({9, 10, 13} \cup (32..126))})

\* the classification as the claim states it
BinaryByRule(sample) ==
    IF 0 \in Range(sample) THEN TRUE
    ELSE IF sample = <<>> THEN FALSE
    ELSE 10 * NonPrintableCount(sample) > 3 * Len(sample)

\* file p comes before the heuristic in scan_files, and its sample can be read
HeuristicDecides(p) ==
    /\ Reached(p)
    /\ p[Len(p)] \notin exclude_files(cfg)
    /\ p \notin ioerr.stat \cup ioerr.sample
    /\ Len(data[p]) <= cfg.max_file_size_bytes
    /\ Lower(splitext_ext(p[Len(p)])) \notin BINARY_EXTENSIONS

\* C17: for a readable file that reaches the heuristic, scan_files returns it
\* exactly when its first up-to-4096 bytes are not binary by the rule: binary
\* with a NUL byte; else not binary when empty; else binary exactly when
\* 10*k > 3*n for k bytes outside {9, 10, 13, 32..126} among n.
C17_BinaryHeuristic ==
    pc \in {"index", "report"} =>
        \A p \in DOMAIN data :
            HeuristicDecides(p) => (p \in Range(files) <=> ~BinaryByRule(SampleOf(p)))

\* a sample without NUL at exactly 30% (3 of 10 bytes not printable), accepted
C17_Witness ==
    /\ pc = "index"
    /\ HeuristicDecides(S_TXT)
    /\ Len(data[S_TXT]) = 10
    /\ NonPrintableCount(data[S_TXT]) = 3
    /\ 0 \notin Range(data[S_TXT])
    /\ S_TXT \in Range(files)

\* the line map records the lines of the candidates processed so far that the
\* given rule keeps, each under its own text with its file and line number, and
\* has no other key
RecordsExactly(Rejects(_)) ==
    LET norm == [j \in 1..file_index |-> NormalizedLines(files[j])]
        kept == {pos \in UNION {{<<j, i>> : i \in 1..Len(norm[j])} : j \in 1..file_index} :
                    ~Rejects(norm[pos[1]][pos[2]])}
    IN  /\ DictKeys(line_to_occurrences) = {norm[pos[1]][pos[2]] : pos \in kept}
        /\ \A pos \in kept :
             \E g \in 1..Len(line_to_occurrences) :
                 /\ line_to_occurrences[g].k = norm[pos[1]][pos[2]]
                 /\ <<relpath(files[pos[1]], root_abs), pos[2]>> \in Range(line_to_occurrences[g].v)

\* the six tokens the claim lists, and the seven of the source
SixTokens == {B("{"), B("}"), B(");"), B("];"), B(")"), B(";")}
SevenTokens == {B("{"), B("}"), B(");"), B("];"), B("],"), B(")"), B(";")}

\* the rule with the six tokens
RejectsSixTokens(text) ==
    \/ text = <<>>
    \/ Len(text) < cfg.min_line_length
    \/ text \in SixTokens

\* the rule with the seven tokens
RejectsSevenTokens(text) ==
    \/ text = <<>>
    \/ Len(text) < cfg.min_line_length
    \/ text \in SevenTokens

\* C18 as claimed: a normalized line is rejected if and only if it is empty,
\* shorter than min_line_length, or one of the six tokens { } ); ]; ) ; and
\* every other line is recorded under its own text.
C18_SixTokensOnly ==
    pc = "index" => RecordsExactly(RejectsSixTokens)

\* C18, amended: a normalized line is rejected if and only if it is empty,
\* shorter than min_line_length (a line of exactly that length is kept), or one
\* of the seven tokens { } ); ]; ], ) ; and every other line is recorded under
\* its own text.
C18_SevenTokens ==
    pc = "index" => RecordsExactly(RejectsSevenTokens)

\* all candidates processed, with min_line_length 2: every token was read and
\* left out, the two-character ones for being tokens; the near misses of two
\* characters are recorded, and so is a line of exactly min_line_length
C18_Witness ==
    /\ pc = "index"
    /\ file_index = Len(files)
    /\ cfg.min_line_length = 2
    /\ SevenTokens \subseteq UNION {Range(NormalizedLines(files[j])) : j \in 1..Len(files)}
    /\ {B("},"), B(";;"), B("ab"), B("abc")} \subseteq DictKeys(line_to_occurrences)
    /\ {B("("), B("[")} \cap DictKeys(line_to_occurrences) = {}

\* every line of candidate j that the skip rule keeps is in the line map, under
\* its text, with the candidate's path and the line's number
LinesRecorded(j) ==
    LET norm == NormalizedLines(files[j])
    IN  \A i \in 1..Len(norm) :
            ~should_skip_line(norm[i], cfg.min_line_length) =>
                \E g \in 1..Len(line_to_occurrences) :
                    /\ line_to_occurrences[g].k = norm[i]
                    /\ <<relpath(files[j], root_abs), i>> \in Range(line_to_occurrences[g].v)

\* no block occurrence names candidate j
NoBlockOf(j) ==
    \A occ \in AllOccurrences(block_to_occurrences) : occ[1] # relpath(files[j], root_abs)

\* C19: with block_size <= 1 (0 and negative values included) the block map is
\* empty, while the indexer runs and when it has returned; a candidate with
\* fewer than block_size lines has no block occurrence; and the lines of such
\* candidates, and of all candidates when block_size <= 1, are recorded in the
\* line map as the skip rule alone decides.
C19_BlockIndexingGuard ==
    pc \in {"index", "report"} =>
        /\ cfg.block_size <= 1 => block_to_occurrences = <<>>
        /\ \A j \in 1..file_index :
             (cfg.block_size <= 1 \/ Len(CandidateLines(files[j])) < cfg.block_size) =>
                /\ NoBlockOf(j)
                /\ pc = "index" => LinesRecorded(j)

\* block_size is negative; both candidates have lines that repeat, in the same
\* order, and the line map returned holds groups
C19_Witness ==
    /\ Returned
    /\ cfg.block_size < 0
    /\ Len(files) = 2
    /\ \E a, b \in 1..2 :
         /\ a + 1 <= Len(NormalizedLines(files[1]))
         /\ b + 1 <= Len(NormalizedLines(files[2]))
         /\ SubSeq(NormalizedLines(files[1]), a, a + 1) = SubSeq(NormalizedLines(files[2]), b, b + 1)
         /\ NormalizedLines(files[1])[a] # <<>>
         /\ NormalizedLines(files[1])[a + 1] # <<>>
    /\ Len(line_to_occurrences) >= 2
    /\ block_to_occurrences = <<>>

\* the lines of a block key: the pieces between its newline characters
KeyLines(key) ==
    LET seps == {i \in 1..Len(key) : key[i] = LF}
        n == Cardinality(seps) + 1
        SepAt(k) == IF k = 0 THEN 0
                    ELSE IF k = n THEN Len(key) + 1
                    ELSE CHOOSE i \in seps : Cardinality({j \in seps : j <= i}) = k
    IN  [k \in 1..n |-> SubSeq(key, SepAt(k - 1) + 1, SepAt(k) - 1)]

\* (candidate number, 0-based start) of the windows of the candidates processed
\* so far, when block indexing is on
ProcessedWindows ==
    IF cfg.block_size > 1 THEN {pos \in WindowPositions : pos[1] <= file_index} ELSE {}

\* C20: every key of the block map, while the indexer runs and when it has
\* returned, is made of exactly block_size lines, none empty, whose lengths
\* (newlines not counted) sum to at least min_block_total_length; and a window
\* without empty line whose lengths sum to exactly min_block_total_length is
\* recorded under its key.
C20_BlockKeys ==
    pc \in {"index", "report"} =>
        /\ \A g \in 1..Len(block_to_occurrences) :
             LET parts == KeyLines(block_to_occurrences[g].k)
             IN  /\ Len(parts) = cfg.block_size
                 /\ \A n \in 1..Len(parts) : parts[n] # <<>>
                 /\ SumLen(parts) >= cfg.min_block_total_length
        /\ pc = "index" =>
             \A pos \in ProcessedWindows :
                 LET window == WindowAt(pos)
                 IN  (/\ \A n \in 1..Len(window) : window[n] # <<>>
                      /\ SumLen(window) = cfg.min_block_total_length)
                     => \E g \in 1..Len(block_to_occurrences) :
                            /\ block_to_occurrences[g].k = Join(<<LF>>, window)
                            /\ <<relpath(files[pos[1]], root_abs), pos[2] + 1>>
                                  \in Range(block_to_occurrences[g].v)

\* a returned block group whose lines sum to exactly min_block_total_length,
\* beside a window left out for a smaller sum and one left out for an empty line
C20_Witness ==
    /\ Returned
    /\ cfg.min_block_total_length > 0
    /\ \E g \in 1..Len(block_to_occurrences) :
         SumLen(KeyLines(block_to_occurrences[g].k)) = cfg.min_block_total_length
    /\ \E pos \in WindowPositions :
         /\ \A n \in 1..cfg.block_size : WindowAt(pos)[n] # <<>>
         /\ SumLen(WindowAt(pos)) < cfg.min_block_total_length
    /\ \E pos \in WindowPositions : \E n \in 1..cfg.block_size : WindowAt(pos)[n] = <<>>

\* what is left of a raw line when whitespace is taken from its two ends, in
\* every way of doing so
Trimmings(raw) ==
    {SubSeq(raw, x[1], x[2]) :
        x \in {y \in (1..(Len(raw) + 1)) \X (0..Len(raw)) :
                 /\ y[1] <= y[2] + 1
                 /\ \A i \in 1..(y[1] - 1) : raw[i] \in Whitespace
                 /\ \A i \in (y[2] + 1)..Len(raw) : raw[i] \in Whitespace}}

\* the keys of the line map under which the line at a position is recorded
KeysOf(pos) ==
    {line_to_occurrences[g].k : g \in {h \in 1..Len(line_to_occurrences) :
        <<relpath(files[pos[1]], root_abs), pos[2]>> \in Range(line_to_occurrences[h].v)}}

\* C21: normalization strips the two ends of a line and nothing else.  When
\* the indexer has read the last candidate, for all lines read (two lines
\* differ only at their ends when some trimming of the one is a trimming of
\* the other): normalizing twice gives what normalizing once gives, and
\* every key is its own normal form; two lines that differ only in
\* leading and trailing whitespace are recorded under the same key (or both
\* not at all); two lines that differ otherwise, as in their internal spacing,
\* are never recorded under the same key.
C21_NormalizationStripsEnds ==
    pc = "index" /\ file_index = Len(files) =>
        LET processed == LinePositions
            raw == [pos \in processed |-> CandidateLines(files[pos[1]])[pos[2]]]
            trims == [pos \in processed |-> Trimmings(raw[pos])]
            keys == [pos \in processed |-> KeysOf(pos)]
        IN  /\ \A pos \in processed :
                 normalize_line(normalize_line(raw[pos])) = normalize_line(raw[pos])
            /\ \A k \in DictKeys(line_to_occurrences) : normalize_line(k) = k
            /\ \A p, q \in processed :
                 IF trims[p] \cap trims[q] # {}
                 THEN keys[p] = keys[q] /\ Cardinality(keys[p]) <= 1
                 ELSE keys[p] \cap keys[q] = {}

\* the indexer has read "a b" with and without indentation and with another
\* terminator, and "a  b": the first three are under one key, the last under another
C21_Witness ==
    /\ pc = "index"
    /\ file_index = Len(files)
    /\ {B("a b\n"), B("  a b\n"), B(" a b\n"), B("a  b\n")}
          \subseteq {CandidateLines(files[pos[1]])[pos[2]] : pos \in LinePositions}
    /\ \E g \in 1..Len(line_to_occurrences) :
         line_to_occurrences[g].k = B("a b") /\ Len(line_to_occurrences[g].v) >= 3
    /\ B("a  b") \in DictKeys(line_to_occurrences)

\* what the process printed once index_duplicates was entered (line 259)
DiscoveredPrinted == \E i \in 1..Len(stdout) : stdout[i].t = "discovered"

\* C22: the stages run in the order discovery, indexing, report writing,
\* console summary, each complete before the next begins.  While scan_files
\* runs nothing is indexed, printed or opened; while index_duplicates runs the
\* walk is over and the output path is as the run found it; the output file is
\* open only with every candidate processed; and the summary is on stdout only
\* when this run's report is complete and closed in the file, with no failure
\* reported.
C22_StageOrder ==
    /\ pc \in {"start", "scan"} =>
         /\ file_index = 0 /\ total_files = 0 /\ total_lines = 0
         /\ line_to_occurrences = <<>> /\ block_to_occurrences = <<>>
         /\ stdout = <<>>
    /\ pc \in {"start", "scan", "index"} =>
         /\ ~out.open
         /\ OutFile = before
         /\ Len(reports) = run - 1
         /\ ~SummaryPrinted
    /\ pc \in {"index", "report", "write", "summary", "done"} =>
         /\ pending = <<>>
         /\ DiscoveredPrinted
    /\ pc \in {"report", "write", "summary"} =>
         /\ file_index = Len(files)
         /\ total_files = Len(files)
         /\ ~SummaryPrinted
    /\ out.open => pc = "write" /\ file_index = Len(files) /\ Len(reports) = run - 1
    /\ pc = "report" => OutFile = before /\ Len(reports) = run - 1
    /\ SummaryPrinted =>
         /\ DiscoveredPrinted
         /\ file_index = Len(files)
         /\ ~TracebackPrinted
         /\ ~out.open
         /\ Len(reports) = run
         /\ OutFile = [exists |-> TRUE, bytes |-> reports[run]]
         /\ reports[run] = FullReport

\* a second run has indexed files, written its report and printed its summary
C22_Witness ==
    /\ pc = "done"
    /\ run = 2
    /\ SummaryPrinted
    /\ file_index > 1
    /\ line_to_occurrences # <<>>
    /\ OutFile # before

\* the place of group g of a map in the order of the report: one more than the
\* number of groups with more occurrences, or as many and a smaller key
RankOf(d, g) ==
    1 + Cardinality({h \in 1..Len(d) :
                       \/ Len(d[h].v) > Len(d[g].v)
                       \/ Len(d[h].v) = Len(d[g].v) /\ LexLess(d[h].k, d[g].k)})

\* the groups of a map in the order of the report
Ranked(d) == [r \in 1..Len(d) |-> d[CHOOSE g \in 1..Len(d) : RankOf(d, g) = r]]

\* what the summary is to show of one group: its head, the first min(10, n)
\* occurrences in stored order, and the indicator with n - 10 iff n > 10
ExpectedGroup(item, text) ==
    LET n == Len(item.v)
    IN  <<[t |-> "group", n |-> n, text |-> SubSeq(text, 1, Min({120, Len(text)}))]>>
        \o SubSeq([i \in 1..n |-> [t |-> "location", occ |-> item.v[i]]], 1, Min({10, n}))
        \o (IF n > 10 THEN <<[t |-> "more", n |-> n - 10]>> ELSE <<>>)

\* what the summary is to show of one map: its first min(top_n, groups) groups
ExpectedSection(d, top_n, first_line_only) ==
    LET ranked == Ranked(d)
    IN  Flatten([r \in 1..Min({top_n, Len(d)}) |->
                   ExpectedGroup(ranked[r],
                                 IF first_line_only THEN FirstLine(ranked[r].k)
                                 ELSE ranked[r].k)])

\* C23: the console summary shows, for blocks and then for lines, exactly the
\* first min(top_n, number of groups) groups in the order of the report (count
\* descending, then key ascending), main passing the default top_n = 10; of
\* each group the first min(10, n) occurrences in stored order, and the "more"
\* indicator if and only if n > 10, with n - 10.
C23_ConsoleSummary ==
    SummaryPrinted =>
        LET at == CHOOSE i \in 1..Len(stdout) : stdout[i].t = "summary"
        IN  SubSeq(stdout, at + 1, Len(stdout)) =
                (IF block_to_occurrences # <<>>
                 THEN <<[t |-> "top_blocks"]>> \o ExpectedSection(block_to_occurrences, 10, TRUE)
                 ELSE <<>>)
             \o (IF line_to_occurrences # <<>>
                 THEN <<[t |-> "top_lines"]>> \o ExpectedSection(line_to_occurrences, 10, FALSE)
                 ELSE <<>>)
             \o <<[t |-> "wrote", path |-> PathStr(out_abs)], [t |-> "elapsed"]>>

\* thirteen line groups and thirteen block groups, stored in another order than
\* the report's; one group of exactly 10 and one of 12 occurrences among the
\* ten shown, a group of 2 among them, and the indicator printed once
C23_Witness ==
    /\ pc = "done"
    /\ Len(line_to_occurrences) = 13
    /\ Len(block_to_occurrences) = 13
    /\ \E g \in 1..13 : Len(block_to_occurrences[g].v) = 10
    /\ \E g \in 1..13 : Len(line_to_occurrences[g].v) = 12
    /\ \E g \in 1..13 : RankOf(line_to_occurrences, g) > 10
    /\ \E g \in 1..13 : RankOf(line_to_occurrences, g) < g
    /\ Cardinality({i \in 1..Len(stdout) : stdout[i].t = "group"}) = 20
    /\ Cardinality({i \in 1..Len(stdout) : stdout[i].t = "more"}) = 1

\* C24: write_report and print_console_summary leave the line map, the block
\* map, every occurrence list in them and the totals as index_duplicates
\* returned them: no step taken from its return to the end of the summary
\* changes any of them.
C24_OutputStagesReadOnly ==
    [][(pc \in {"report", "write", "summary"}) =>
           (line_to_occurrences' = line_to_occurrences
            /\ block_to_occurrences' = block_to_occurrences
            /\ total_files' = total_files
            /\ total_lines' = total_lines)]_vars

\* both output stages are over, with maps that are not stored in the order in
\* which the report and the summary list them
C24_Witness ==
    /\ pc = "done"
    /\ SummaryPrinted
    /\ Len(reports) = 1
    /\ line_to_occurrences # SortedItems(line_to_occurrences)
    /\ block_to_occurrences # SortedItems(block_to_occurrences)
    /\ total_lines > 0

\* the progress lines on stdout, in order
ProgressPrinted == SelectSeq(stdout, LAMBDA e : e.t = "progress")

\* C25: during indexing a progress line is printed after every 200th
\* candidate file, whether or not reading a file failed: with n files
\* processed exactly n \div 200 progress lines are out, the k-th naming file
\* number 200 * k (so it is out before file 200 * k + 1 is read), and with the
\* whole list of N files processed there are N \div 200 of them.
C25_ProgressEvery200 ==
    pc \in {"index", "report", "write", "summary", "done"} =>
        ProgressPrinted = [k \in 1..(file_index \div 200) |-> [t |-> "progress", n |-> 200 * k]]

\* C26: total_files as index_duplicates returns it is the length of the
\* candidate list it was given, whatever reads fail: a candidate that cannot be
\* read is counted as a file and adds nothing to total_lines.
C26_TotalFilesIsListLength ==
    Returned =>
        /\ total_files = Len(files)
        /\ total_lines = SumLineCounts(files, Len(files), ioerr.read)
        /\ (\A j \in 1..Len(files) : files[j] \in ioerr.read) => total_lines = 0

\* index_duplicates has returned; of its three or more candidates one with
\* lines could not be read, another was read
C26_Witness ==
    /\ Returned
    /\ Len(files) >= 3
    /\ total_files = Len(files)
    /\ \E j \in 1..Len(files) : files[j] \in ioerr.read /\ CountLines(data[files[j]]) > 0
    /\ \E j \in 1..Len(files) : files[j] \notin ioerr.read /\ CountLines(data[files[j]]) > 0
    /\ total_lines > 0

\* C27: block duplicates imply line duplicates.  When index_duplicates has
\* returned, for every retained block group, every occurrence (p, s) of it and
\* every offset j in 0..block_size-1: if the j-th line of the block key is not
\* rejected by the single-line skip rule, that line is a key of the retained
\* line map, its occurrence list contains (p, s+j), and it has at least as
\* many occurrences as the block group.
C27_BlockImpliesLine ==
    Returned =>
        \A g \in 1..Len(block_to_occurrences) :
            LET item == block_to_occurrences[g]
                parts == KeyLines(item.k)
            IN  \A j \in 0..(cfg.block_size - 1) :
                    ~should_skip_line(parts[j + 1], cfg.min_line_length) =>
                        \E h \in 1..Len(line_to_occurrences) :
                            /\ line_to_occurrences[h].k = parts[j + 1]
                            /\ Len(line_to_occurrences[h].v) >= Len(item.v)
                            /\ \A o \in 1..Len(item.v) :
                                 <<item.v[o][1], item.v[o][2] + j>>
                                     \in Range(line_to_occurrences[h].v)

\* a retained block of two lines, one of them too short to be indexed as a
\* line, the other a retained line group with more occurrences than the block
C27_Witness ==
    /\ Returned
    /\ cfg.block_size = 2
    /\ \E g \in 1..Len(block_to_occurrences) :
         /\ block_to_occurrences[g].k = B("ab\na b")
         /\ should_skip_line(B("ab"), cfg.min_line_length)
         /\ \E h \in 1..Len(line_to_occurrences) :
              /\ line_to_occurrences[h].k = B("a b")
              /\ Len(line_to_occurrences[h].v) > Len(block_to_occurrences[g].v)

\* the normalized lines of every candidate, by candidate number
NormalizedByFile == [j \in 1..Len(files) |-> NormalizedLines(files[j])]

\* the positions at which the candidates hold a line that the indexer records
RecordedLinePositions ==
    LET norm == NormalizedByFile
    IN  {pos \in LinePositions : ~should_skip_line(norm[pos[1]][pos[2]], cfg.min_line_length)}

\* the positions at which the candidates hold a window that the indexer records
RecordedWindowPositions ==
    LET norm == NormalizedByFile
    IN  IF cfg.block_size > 1
        THEN {pos \in WindowPositions :
                ~SkipWindow(SubSeq(norm[pos[1]], pos[2] + 1, pos[2] + cfg.block_size),
                            cfg.min_block_total_length)}
        ELSE {}

\* the group of a map under a key is retained with exactly n occurrences, all
\* of them carrying the one path
RetainedInOneFile(d, key, rel_path, n) ==
    \E h \in 1..Len(d) :
        /\ d[h].k = key
        /\ Len(d[h].v) = n
        /\ \A o \in 1..n : d[h].v[o][1] = rel_path

\* C28: a retained group does not require two distinct files.  When
\* index_duplicates has returned, a line, and likewise a block window, that
\* the candidates hold at two or more positions, all of them in one file,
\* has a retained group whose occurrences, one per position, all carry the
\* relative path of that file.
C28_SingleFileGroups ==
    Returned =>
        LET norm == NormalizedByFile
            linePos == RecordedLinePositions
            winPos == RecordedWindowPositions
            lineAt == [pos \in linePos |-> norm[pos[1]][pos[2]]]
            winAt == [pos \in winPos |->
                        Join(<<LF>>, SubSeq(norm[pos[1]], pos[2] + 1, pos[2] + cfg.block_size))]
        IN  /\ \A pos \in linePos :
                 LET same == {q \in linePos : lineAt[q] = lineAt[pos]}
                 IN  Cardinality(same) >= 2 /\ (\A q \in same : q[1] = pos[1]) =>
                         RetainedInOneFile(line_to_occurrences, lineAt[pos],
                                           relpath(files[pos[1]], root_abs), Cardinality(same))
            /\ \A pos \in winPos :
                 LET same == {q \in winPos : winAt[q] = winAt[pos]}
                 IN  Cardinality(same) >= 2 /\ (\A q \in same : q[1] = pos[1]) =>
                         RetainedInOneFile(block_to_occurrences, winAt[pos],
                                           relpath(files[pos[1]], root_abs), Cardinality(same))

\* a.py alone holds the line "a  b", three times in a row: a line group of
\* three and a block group of two occurrences, all in a.py, beside groups that
\* span files
C28_Witness ==
    /\ Returned
    /\ cfg.block_size = 2
    /\ RetainedInOneFile(line_to_occurrences, B("a  b"), B("a.py"), 3)
    /\ RetainedInOneFile(block_to_occurrences, B("a  b\na  b"), B("a.py"), 2)
    /\ \E h \in 1..Len(line_to_occurrences) :
         Cardinality({line_to_occurrences[h].v[o][1] : o \in 1..Len(line_to_occurrences[h].v)}) >= 2

\* the orders in which a list of files can be given
Reorderings(fs) ==
    {[i \in 1..Len(fs) |-> fs[f[i]]] :
        f \in {g \in [1..Len(fs) -> 1..Len(fs)] : \A a, b \in 1..Len(fs) : g[a] = g[b] => a = b}}

\* what index_duplicates returns for a list of files: the filtered maps, the totals
IndexOf(fs) ==
    LET r == IndexedThrough(fs, Len(fs))
    IN  [lines |-> FilterDuplicates(r.lines), blocks |-> FilterDuplicates(r.blocks),
         total_files |-> Len(fs), total_lines |-> r.total]

\* two maps with the same keys and under each key the same occurrences, as many
SameUpToOccurrenceOrder(d, e) ==
    /\ DictKeys(d) = DictKeys(e)
    /\ Len(d) = Len(e)
    /\ \A g \in 1..Len(d) : \E h \in 1..Len(e) :
         /\ e[h].k = d[g].k
         /\ Len(e[h].v) = Len(d[g].v)
         /\ Range(e[h].v) = Range(d[g].v)

\* the groups of a map as the report lists them: key and number of occurrences
ReportSequence(d) ==
    LET sorted == SortedItems(d) IN [i \in 1..Len(sorted) |-> <<sorted[i].k, Len(sorted[i].v)>>]

\* C29: the index does not depend on the order of the candidate list, up to the
\* order of the occurrences.  When index_duplicates has returned, indexing any
\* permutation of the candidate list gives the same line keys and block keys,
\* under each key the same occurrences as many times, and the same totals as
\* the run has; and the report lists the same groups in the same sequence.
C29_OrderIndependent ==
    Returned =>
        \A perm \in Reorderings(files) :
            LET other == IndexOf(perm)
            IN  /\ SameUpToOccurrenceOrder(line_to_occurrences, other.lines)
                /\ SameUpToOccurrenceOrder(block_to_occurrences, other.blocks)
                /\ other.total_files = total_files
                /\ other.total_lines = total_lines
                /\ ReportSequence(other.lines) = ReportSequence(line_to_occurrences)
                /\ ReportSequence(other.blocks) = ReportSequence(block_to_occurrences)

\* three candidates; in another order they give maps that store their keys, and
\* the occurrences of a key, in another order than the run's, with two groups
\* of as many occurrences among them
C29_Witness ==
    /\ Returned
    /\ Len(files) = 3
    /\ \E perm \in Reorderings(files) :
         LET other == IndexOf(perm)
         IN  /\ other.lines # line_to_occurrences
             /\ [g \in 1..Len(other.lines) |-> other.lines[g].k]
                    # [g \in 1..Len(line_to_occurrences) |-> line_to_occurrences[g].k]
             /\ \E g \in 1..Len(line_to_occurrences), h \in 1..Len(other.lines) :
                  /\ other.lines[h].k = line_to_occurrences[g].k
                  /\ other.lines[h].v # line_to_occurrences[g].v
             /\ other.blocks # block_to_occurrences
    /\ \E g, h \in 1..Len(line_to_occurrences) :
         g # h /\ Len(line_to_occurrences[g].v) = Len(line_to_occurrences[h].v)

\* the path of a file below the root as written from the root: its names from
\* the root down, joined by "/"
RootRelative(p) == Join(<<47>>, SubSeq(p, Len(root_abs) + 1, Len(p)))

\* (p, n) names line n of a candidate that was read and has at least n + extra lines
ValidLocation(occ, extra) ==
    \E j \in 1..Len(files) :
        /\ BelowRoot(files[j])
        /\ files[j] \notin ioerr.read
        /\ occ[1] = RootRelative(files[j])
        /\ 1 <= occ[2]
        /\ occ[2] + extra <= CountLines(data[files[j]])

\* C30: every occurrence is a valid location.  While the indexer runs and when
\* it has returned, every occurrence (p, n) of the line map has p the
\* root-relative path of a candidate with L lines and 1 <= n <= L, every
\* occurrence of the block map 1 <= n <= L - block_size + 1; and p is not the
\* root-relative path of any file below the root that discovery skipped.
C30_ValidLocations ==
    pc \in {"index", "report"} =>
        LET skipped == {RootRelative(q) : q \in {f \in DOMAIN data : BelowRoot(f)} \ Range(files)}
        IN  /\ \A occ \in AllOccurrences(line_to_occurrences) :
                 ValidLocation(occ, 0) /\ occ[1] \notin skipped
            /\ \A occ \in AllOccurrences(block_to_occurrences) :
                 ValidLocation(occ, cfg.block_size - 1) /\ occ[1] \notin skipped

\* index_duplicates has returned occurrences in a file of a subdirectory, at the
\* last line of a file and for a block at the last possible start; discovery
\* skipped a file below the root, and a candidate could not be read
C30_Witness ==
    /\ Returned
    /\ \E occ \in AllOccurrences(line_to_occurrences) :
         \E j \in 1..Len(files) :
            /\ Len(files[j]) > Len(root_abs) + 1
            /\ occ[1] = RootRelative(files[j])
            /\ occ[2] = CountLines(data[files[j]])
    /\ \E occ \in AllOccurrences(block_to_occurrences) :
         \E j \in 1..Len(files) :
            /\ occ[1] = RootRelative(files[j])
            /\ occ[2] = CountLines(data[files[j]]) - cfg.block_size + 1
    /\ \E q \in DOMAIN data : BelowRoot(q) /\ q \notin Range(files)
    /\ \E j \in 1..Len(files) : files[j] \in ioerr.read

====
